---- MODULE Spec2Model ----
(***************************************************************************)
(* Model of the metrics helpers of src/functions.py:                       *)
(*   transform_cross_val_scores, fill_comparison_df,                       *)
(*   cramers_corrected_stat and cramers_matrix.                            *)
(*                                                                         *)
(* Floating-point numbers are modelled by exact values: a float is the     *)
(* record [kind, num, den, root] standing for (num/den)^(1/root), with     *)
(* num/den in lowest terms, den > 0 and root in {1, 2}; the non-finite     *)
(* outcomes of a division by zero are the kinds "nan" and "inf".           *)
(***************************************************************************)
EXTENDS Integers, Sequences, FiniteSets, TLC

VARIABLES
    dataf,            \* the DataFrame handed to cramers_matrix: column -> values
    crm_pc,           \* "frame" | "done"
    df_resultat,      \* the matrix cramers_matrix returned
    crm_calls,        \* what each cramers_corrected_stat call of the run did
    perf_dict,        \* the record handed to transform_cross_val_scores
    tcv_pc,           \* "raw" | "returned" | "raised", and after a second
                      \* call "reapplied" | "raised again"
    tcv_arg,          \* the record as it was when the call was made
    tcv_scoring,      \* the scoring list of the call
    tcv_ret,          \* what the call returned: "none" | "perf_dict"
    comparison_df,    \* the comparison table: model_name -> its four entries
    cmp_pc,           \* outcome of the last fill_comparison_df call:
                      \* "idle" | "returned" | "raised"
    cmp_before,       \* the table as it was when the last call was made
    cmp_call,         \* the arguments of the last call
    cmp_last,         \* model_name -> arguments of its last call that returned
    cmp_calls,        \* number of calls made
    arg_y_true,       \* the true values handed to a metric function
    arg_y_pred,       \* the predicted values handed to it
    arg_X_df,         \* the feature matrix handed to it
    met_pc,           \* "off" | "idle" | "returned" | "raised"
    met_fn,           \* the metric function that was called
    met_in,           \* its arguments as they were when it was called
    met_ret,          \* what it returned
    met_exc,          \* the exception it raised
    wrp_pc,           \* "off" | "idle" | "returned" | "raised"
    wrp_fn,           \* the wrapper that was called
    wrp_in,           \* its arguments
    wrp_eff,          \* the collaborator calls it made, in order
    wrp_exc,          \* the exception it raised
    wrp_msg,          \* the names listed by the message of its exception
    wrp_ret,          \* what it returned
    tracking_df,      \* the tracking table: index -> column -> cell
    trk_pc,           \* "off" | "idle" | "returned"
    trk_before,       \* the table as it was when the last call was made
    trk_args,         \* the arguments of every call made, in order
    trk_idx           \* the index the last call wrote at

tcvVars == <<perf_dict, tcv_pc, tcv_arg, tcv_scoring, tcv_ret>>

crmVars == <<dataf, crm_pc, df_resultat, crm_calls>>

cmpVars == <<comparison_df, cmp_pc, cmp_before, cmp_call, cmp_last, cmp_calls>>

metVars == <<arg_y_true, arg_y_pred, arg_X_df, met_pc, met_fn, met_in, met_ret, met_exc>>

wrpVars == <<wrp_pc, wrp_fn, wrp_in, wrp_eff, wrp_exc, wrp_msg, wrp_ret>>

trkVars == <<tracking_df, trk_pc, trk_before, trk_args, trk_idx>>

-----------------------------------------------------------------------------
(* Bounds of the model *)

MaxFolds == 2
MaxScoring == 2
MaxFills == 3
MaxRows == 4
MaxLen == 2
MaxN == 4
MaxCols == 2
Precision == 3
MaxExp == 3
MaxCalls == 3

-----------------------------------------------------------------------------
(* Exact arithmetic *)

Abs(x) == IF x < 0 THEN -x ELSE x

RECURSIVE GCD(_, _)
GCD(a, b) == IF b = 0 THEN a ELSE GCD(b, a % b)

\* the fraction n/d (d # 0) in lowest terms with a positive denominator
Frac(n, d) ==
    LET s == IF d < 0 THEN -1 ELSE 1
        g == GCD(Abs(n), Abs(d))
    IN  <<(s * n) \div g, (s * d) \div g>>

RECURSIVE ISqrtFrom(_, _)
ISqrtFrom(x, r) == IF (r + 1) * (r + 1) > x THEN r ELSE ISqrtFrom(x, r + 1)

\* floor of the square root of a natural number
ISqrt(x) == ISqrtFrom(x, 0)

IsSquare(x) == ISqrt(x) * ISqrt(x) = x

RECURSIVE SumSeq(_)
SumSeq(s) == IF s = <<>> THEN 0 ELSE Head(s) + SumSeq(Tail(s))

\* fractions <<numerator, denominator>>
RatAdd(a, b) == Frac(a[1] * b[2] + b[1] * a[2], a[2] * b[2])

RatSub(a, b) == Frac(a[1] * b[2] - b[1] * a[2], a[2] * b[2])

RatDiv(a, b) == Frac(a[1] * b[2], a[2] * b[1])

RatLess(a, b) == a[1] * b[2] < b[1] * a[2]

RECURSIVE RatSum(_)
RatSum(s) == IF s = <<>> THEN <<0, 1>> ELSE RatAdd(Head(s), RatSum(Tail(s)))

RECURSIVE Pow10(_)
Pow10(n) == IF n = 0 THEN 1 ELSE 10 * Pow10(n - 1)

-----------------------------------------------------------------------------
(* Values held by the records *)

\* a numpy array of per-fold scores
NdArray(a) == [kind |-> "ndarray", arr |-> a, num |-> 0, den |-> 1, root |-> 1]

\* the float q[1]/q[2]
Float(q) == [kind |-> "float", arr |-> <<>>, num |-> q[1], den |-> q[2], root |-> 1]

\* a Python int
PyInt(n) == [kind |-> "int", arr |-> <<>>, num |-> n, den |-> 1, root |-> 1]

\* the floats nan and inf
NaN == [kind |-> "nan", arr |-> <<>>, num |-> 0, den |-> 1, root |-> 1]

Inf == [kind |-> "inf", arr |-> <<>>, num |-> 0, den |-> 1, root |-> 1]

\* numpy.sqrt of the non-negative fraction q
NpSqrt(q) ==
    IF IsSquare(q[1]) /\ IsSquare(q[2])
    THEN Float(<<ISqrt(q[1]), ISqrt(q[2])>>)
    ELSE [kind |-> "float", arr |-> <<>>, num |-> q[1], den |-> q[2], root |-> 2]

\* the array itself, signs kept
NpAbs_signs_kept(a) == a

\* numpy.abs of an array
NpAbs(a) == [i \in DOMAIN a |-> Abs(a[i])]

\* ndarray.mean(): the sum of the elements over their number
NpMean(a) == Float(Frac(SumSeq(a), Len(a)))

\* the sample standard deviation (ddof = 1)
NpStdSample(a) ==
    LET n == Len(a)
        s == SumSeq(a)
        dev2 == [i \in DOMAIN a |-> (n * a[i] - s) * (n * a[i] - s)]
    IN  IF n = 1 THEN NaN
        ELSE NpSqrt(Frac(SumSeq(dev2), n * n * (n - 1)))

\* ndarray.std() with numpy's default ddof = 0:
\* sqrt(mean(abs(a - a.mean()) ** 2)); a[i] - mean = (n*a[i] - sum) / n
NpStd(a) ==
    LET n == Len(a)
        s == SumSeq(a)
        dev2 == [i \in DOMAIN a |-> (n * a[i] - s) * (n * a[i] - s)]
    IN  NpSqrt(Frac(SumSeq(dev2), n * n * n))

-----------------------------------------------------------------------------
(* transform_cross_val_scores *)

mapping ==
    [neg_root_mean_squared_error |-> "rmse",
     neg_mean_absolute_error |-> "mae",
     r2 |-> "r2"]

\* d[key] = v on a dict
DictSet(d, key, v) ==
    [k \in DOMAIN d \cup {key} |-> IF k = key THEN v ELSE d[k]]

\* the four assignments of the loop body, in source order
LoopBody == << <<"train", "mean">>, <<"test", "mean">>,
              <<"train", "std">>, <<"test", "std">> >>

\* a variant that first stores the absolute values back in the raw entry
AssignStat_abs_in_place(d, score, part, stat) ==
    LET raw == part \o "_" \o score
    IN  IF raw \notin DOMAIN d \/ score \notin DOMAIN mapping
        THEN [dict |-> d, raised |-> TRUE]
        ELSE LET a == NpAbs(d[raw].arr)
                 v == IF stat = "mean" THEN NpMean(a) ELSE NpStd(a)
                 key == part \o "_" \o mapping[score] \o "_" \o stat
             IN  [dict |-> DictSet(DictSet(d, raw, NdArray(a)), key, v),
                  raised |-> FALSE]

\* a variant that stores the doubled absolute values back in the raw entry
AssignStat_doubles_raw(d, score, part, stat) ==
    LET raw == part \o "_" \o score
    IN  IF raw \notin DOMAIN d \/ score \notin DOMAIN mapping
        THEN [dict |-> d, raised |-> TRUE]
        ELSE LET a == NpAbs(d[raw].arr)
                 v == IF stat = "mean" THEN NpMean(a) ELSE NpStd(a)
                 key == part \o "_" \o mapping[score] \o "_" \o stat
                 twice == NdArray([j \in DOMAIN a |-> 2 * a[j]])
             IN  [dict |-> DictSet(DictSet(d, raw, twice), key, v),
                  raised |-> FALSE]

\* One assignment  perf_dict[f"{part}_{mapping[score]}_{stat}"] =
\*                     np.abs(perf_dict[f"{part}_{score}"]).<stat>()
\* Python evaluates the right-hand side first, then the subscript of the
\* target; either lookup may raise KeyError, and then nothing is stored.
AssignStat(d, score, part, stat) ==
    LET raw == part \o "_" \o score
    IN  IF raw \notin DOMAIN d \/ score \notin DOMAIN mapping
        THEN [dict |-> d, raised |-> TRUE]
        ELSE LET a == NpAbs(d[raw].arr)
                 v == IF stat = "mean" THEN NpMean(a) ELSE NpStd(a)
                 key == part \o "_" \o mapping[score] \o "_" \o stat
             IN  [dict |-> DictSet(d, key, v), raised |-> FALSE]

\* the statements j.. of the body for one score, stopping at the first raise
RECURSIVE RunBody(_, _, _)
RunBody(d, score, j) ==
    IF j > Len(LoopBody) THEN [dict |-> d, raised |-> FALSE]
    ELSE LET r == AssignStat(d, score, LoopBody[j][1], LoopBody[j][2])
         IN  IF r.raised THEN r ELSE RunBody(r.dict, score, j + 1)

\* for score in scoring: ...   from position i on
RECURSIVE RunLoop(_, _, _)
RunLoop(d, scoring, i) ==
    IF i > Len(scoring) THEN [dict |-> d, raised |-> FALSE]
    ELSE LET r == RunBody(d, scoring[i], 1)
         IN  IF r.raised THEN r ELSE RunLoop(r.dict, scoring, i + 1)

\* The call on the dict object d: the dict as the call leaves it, whether
\* KeyError was raised, and the object returned ("perf_dict": the argument
\* itself, line 191; "none" when the call raised).
transform_cross_val_scores(d, scoring) ==
    LET r == RunLoop(d, scoring, 1)
    IN  [dict |-> r.dict, raised |-> r.raised,
         ret |-> IF r.raised THEN "none" ELSE "perf_dict"]

-----------------------------------------------------------------------------
(* Inputs of transform_cross_val_scores *)

Parts == {"train", "test"}

\* the identifiers of the translation table and one scorer name it lacks
ScorerNames == DOMAIN mapping \cup {"neg_mean_squared_error"}

ScoringLists == UNION {[1..n -> ScorerNames] : n \in 1..MaxScoring}

ScoreValues == {-2, 1}

FoldArrays == UNION {[1..n -> ScoreValues] : n \in 1..MaxFolds}

\* per-fold scores used when only the key set of the record varies
FoldsOf(part, s) ==
    CASE s = "neg_root_mean_squared_error" ->
            IF part = "train" THEN <<-1, -2, -3>> ELSE <<-4, -5>>
      [] s = "neg_mean_absolute_error" ->
            IF part = "train" THEN <<-2, -2, -5>> ELSE <<-1, -3, -2>>
      [] s = "r2" ->
            IF part = "train" THEN <<1, -1, 3>> ELSE <<-2, 2, 2>>
      [] OTHER ->
            IF part = "train" THEN <<-4, -9, -1>> ELSE <<-1, -1, -4>>

DefaultFolds == [e \in Parts \X ScorerNames |-> FoldsOf(e[1], e[2])]

RawKey(part, s) == part \o "_" \o s

\* A record of per-fold scores as the cross-validation capability returns
\* it (fit_time, score_time, {part}_{scorer}), holding the score entries
\* named by present, a set of <<part, scorer>> pairs.
RawRecord(present, folds) ==
    LET keys == {RawKey(e[1], e[2]) : e \in present}
        entry(k) == CHOOSE e \in present : RawKey(e[1], e[2]) = k
    IN  [k \in keys \cup {"fit_time", "score_time"} |->
            IF k \in keys
            THEN NdArray(folds[entry(k)])
            ELSE NdArray(<<3, 2, 2>>)]

\* every key set over the four scorers, with the default scores
KeyRecords ==
    {RawRecord(present, DefaultFolds) : present \in SUBSET (Parts \X ScorerNames)}

\* one known scorer with every choice of train and test scores
ScoreRecords ==
    {RawRecord(Parts \X {id},
               [e \in Parts \X {id} |-> IF e[1] = "train" THEN tr ELSE te]) :
         id \in DOMAIN mapping, tr \in FoldArrays, te \in FoldArrays}

RawRecords == KeyRecords \cup ScoreRecords

-----------------------------------------------------------------------------
(* The calls of transform_cross_val_scores *)

TcvInit ==
    /\ perf_dict \in RawRecords
    /\ tcv_pc = "raw"
    /\ tcv_arg = perf_dict
    /\ tcv_scoring = <<>>
    /\ tcv_ret = "none"

\* no record is being transformed
TcvOff ==
    /\ perf_dict = <<>>
    /\ tcv_pc = "off"
    /\ tcv_arg = <<>>
    /\ tcv_scoring = <<>>
    /\ tcv_ret = "none"

\* perf_dict = transform_cross_val_scores(perf_dict=perf_dict, scoring=scoring)
TransformCrossValScores ==
    /\ tcv_pc = "raw"
    /\ \E scoring \in ScoringLists :
         LET r == transform_cross_val_scores(perf_dict, scoring)
         IN  /\ perf_dict' = r.dict
             /\ tcv_pc' = IF r.raised THEN "raised" ELSE "returned"
             /\ tcv_arg' = perf_dict
             /\ tcv_scoring' = scoring
             /\ tcv_ret' = r.ret

\* the same call once more, on the record the first call returned and
\* with the same scoring list
TransformCrossValScoresAgain ==
    /\ tcv_pc = "returned"
    /\ LET r == transform_cross_val_scores(perf_dict, tcv_scoring)
       IN  /\ perf_dict' = r.dict
           /\ tcv_pc' = IF r.raised THEN "raised again" ELSE "reapplied"
           /\ tcv_arg' = perf_dict
           /\ tcv_scoring' = tcv_scoring
           /\ tcv_ret' = r.ret

-----------------------------------------------------------------------------
(* fill_comparison_df *)

\* the keys of the dict literal of lines 217-222, in evaluation order
FourKeys(metrics) ==
    << "train_" \o metrics \o "_mean", "test_" \o metrics \o "_mean",
       "train_" \o metrics \o "_std", "test_" \o metrics \o "_std" >>

\* a variant that adds the four entries to the entry the name already has
fill_comparison_df_merging(table, metrics, model_name, model_metrics) ==
    LET keys == FourKeys(metrics)
        keyset == {keys[i] : i \in DOMAIN keys}
        old == IF model_name \in DOMAIN table THEN table[model_name] ELSE <<>>
    IN  IF keyset \subseteq DOMAIN model_metrics
        THEN [table |-> DictSet(table, model_name,
                                [k \in keyset \cup DOMAIN old |->
                                    IF k \in keyset THEN model_metrics[k]
                                    ELSE old[k]]),
              raised |-> FALSE]
        ELSE [table |-> table, raised |-> TRUE]

\* a variant that stores the entries found before it raises
fill_comparison_df_partial(table, metrics, model_name, model_metrics) ==
    LET keys == FourKeys(metrics)
        keyset == {keys[i] : i \in DOMAIN keys}
        found == keyset \cap DOMAIN model_metrics
    IN  [table |-> DictSet(table, model_name,
                           [k \in found |-> model_metrics[k]]),
         raised |-> ~(keyset \subseteq DOMAIN model_metrics)]

\* comparison_df[model_name] = {four keys: model_metrics[key]}
\* The dict literal is built first; a key missing from model_metrics raises
\* KeyError before the assignment to the table.
fill_comparison_df(table, metrics, model_name, model_metrics) ==
    LET keys == FourKeys(metrics)
        keyset == {keys[i] : i \in DOMAIN keys}
    IN  IF keyset \subseteq DOMAIN model_metrics
        THEN [table |-> DictSet(table, model_name,
                                [k \in keyset |-> model_metrics[k]]),
              raised |-> FALSE]
        ELSE [table |-> table, raised |-> TRUE]

-----------------------------------------------------------------------------
(* Inputs of fill_comparison_df *)

ModelNames == {"linear_regression", "random_forest"}

MetricNames == {"rmse", "mae", "r2"}

AllInOrder == <<"neg_root_mean_squared_error", "neg_mean_absolute_error", "r2">>

\* the default scores with the partitions exchanged
SwappedFolds ==
    [e \in Parts \X ScorerNames |->
        FoldsOf(IF e[1] = "train" THEN "test" ELSE "train", e[2])]

\* Records a caller may pass as model_metrics: two fully transformed
\* records with different values, the record a transformation left when it
\* raised half-way (test_r2 missing), and a record never transformed.
ModelMetrics ==
    { transform_cross_val_scores(
          RawRecord(Parts \X DOMAIN mapping, DefaultFolds), AllInOrder).dict,
      transform_cross_val_scores(
          RawRecord(Parts \X DOMAIN mapping, SwappedFolds), AllInOrder).dict,
      transform_cross_val_scores(
          RawRecord((Parts \X DOMAIN mapping) \ {<<"test", "r2">>}, DefaultFolds),
          AllInOrder).dict,
      RawRecord(Parts \X DOMAIN mapping, DefaultFolds) }

-----------------------------------------------------------------------------
(* The calls of fill_comparison_df *)

NoCall == [metrics |-> "", model_name |-> "", model_metrics |-> <<>>]

CmpInit ==
    /\ comparison_df = <<>>
    /\ cmp_pc = "idle"
    /\ cmp_before = <<>>
    /\ cmp_call = NoCall
    /\ cmp_last = <<>>
    /\ cmp_calls = 0

\* no table is being filled
CmpOff ==
    /\ comparison_df = <<>>
    /\ cmp_pc = "off"
    /\ cmp_before = <<>>
    /\ cmp_call = NoCall
    /\ cmp_last = <<>>
    /\ cmp_calls = 0

\* fill_comparison_df(comparison_df, metrics, model_name, model_metrics)
FillComparisonDf ==
    /\ cmp_pc # "off"
    /\ cmp_calls < MaxFills
    /\ \E metrics \in MetricNames, model_name \in ModelNames,
          model_metrics \in ModelMetrics :
         LET r == fill_comparison_df(comparison_df, metrics, model_name,
                                     model_metrics)
             call == [metrics |-> metrics, model_name |-> model_name,
                      model_metrics |-> model_metrics]
         IN  /\ comparison_df' = r.table
             /\ cmp_pc' = IF r.raised THEN "raised" ELSE "returned"
             /\ cmp_before' = comparison_df
             /\ cmp_call' = call
             /\ cmp_last' = IF r.raised THEN cmp_last
                            ELSE DictSet(cmp_last, model_name, call)
             /\ cmp_calls' = cmp_calls + 1

-----------------------------------------------------------------------------
(* cramers_corrected_stat *)

\* the elements of a finite set, in some fixed order
RECURSIVE SeqOf(_)
SeqOf(S) == IF S = {} THEN <<>>
            ELSE LET e == CHOOSE e \in S : TRUE IN <<e>> \o SeqOf(S \ {e})

\* x.value_counts(): one entry per distinct value of the column
value_counts(x) == {x[i] : i \in DOMAIN x}

\* pd.crosstab(x, y): the contingency table of the two columns, one row per
\* distinct value of x and one column per distinct value of y
crosstab(x, y) ==
    LET index == SeqOf(value_counts(x))
        columns == SeqOf(value_counts(y))
    IN  [index |-> index,
         columns |-> columns,
         count |-> [i \in DOMAIN index, j \in DOMAIN columns |->
                      Cardinality({m \in DOMAIN x :
                                     x[m] = index[i] /\ y[m] = columns[j]})]]

\* conf_matrix.shape
Shape(t) == <<Len(t.index), Len(t.columns)>>

\* conf_matrix.sum(): the total of each column of the table
ColumnSums(t) ==
    [j \in DOMAIN t.columns |-> SumSeq([i \in DOMAIN t.index |-> t.count[i, j]])]

\* scipy.stats.chi2_contingency(observed, correction)[0], Pearson's
\* statistic sum (O - E)^2 / E with E = row total * column total / n.
\* Yates' continuity correction moves each O by min(0.5, |E - O|) towards E;
\* scipy applies it only when correction is true and there is one degree of
\* freedom.  With d = |R*C - n*O| = n * |E - O| a cell contributes
\* d^2 / (n*R*C), and max(0, 2d - n)^2 / (4*n*R*C) when corrected.
chi2_contingency(t, correction) ==
    LET r == Len(t.index)
        k == Len(t.columns)
        R == [i \in 1..r |-> SumSeq([j \in 1..k |-> t.count[i, j]])]
        C == ColumnSums(t)
        n == SumSeq(C)
        dof == (r - 1) * (k - 1)
        yates == correction /\ dof = 1
        term(i, j) ==
            LET d == Abs(R[i] * C[j] - n * t.count[i, j])
                m == IF 2 * d > n THEN 2 * d - n ELSE 0
            IN  IF yates THEN Frac(m * m, 4 * n * R[i] * C[j])
                ELSE Frac(d * d, n * R[i] * C[j])
    IN  [statistic |->
            IF dof = 0 THEN <<0, 1>>
            ELSE RatSum([c \in 1..(r * k) |->
                            term(((c - 1) \div k) + 1, ((c - 1) % k) + 1)]),
         yates |-> yates]

\* the digits of sqrt(q) taken so far: p = floor(sqrt(N)) and r = N - p^2
\* for N = floor(q * 100^t), rem / den the part of q * 100^t below N
RECURSIVE SqrtDigits(_, _, _, _, _)
SqrtDigits(p, r, rem, den, steps) ==
    IF steps = 0 THEN [p |-> p, r |-> r, rem |-> rem]
    ELSE LET pair == (rem * 100) \div den
             r2 == r * 100 + pair
             d == CHOOSE d \in 0..9 :
                     /\ (20 * p + d) * d <= r2
                     /\ d = 9 \/ (20 * p + d + 1) * (d + 1) > r2
         IN  SqrtDigits(10 * p + d, r2 - (20 * p + d) * d,
                        (rem * 100) % den, den, steps - 1)

\* round(v, ndigits): an int is returned as it is, nan and inf stay, a
\* float goes to the nearest multiple of 10^-ndigits (ties to even)
Round(v, ndigits) ==
    IF v.kind # "float" THEN v
    ELSE IF v.root = 1 THEN
        LET scaled == Frac(Abs(v.num) * Pow10(ndigits), v.den)
            f == scaled[1] \div scaled[2]
            rem == scaled[1] % scaled[2]
            up == 2 * rem > scaled[2] \/ (2 * rem = scaled[2] /\ f % 2 = 1)
            k == IF up THEN f + 1 ELSE f
        IN  Float(Frac((IF v.num < 0 THEN -1 ELSE 1) * k, Pow10(ndigits)))
    ELSE
        LET whole == v.num \div v.den
            s == SqrtDigits(ISqrt(whole), whole - ISqrt(whole) * ISqrt(whole),
                            v.num % v.den, v.den, ndigits)
            up == s.r > s.p \/ (s.r = s.p /\ 4 * s.rem >= v.den)
            k == IF up THEN s.p + 1 ELSE s.p
        IN  Float(Frac(k, Pow10(ndigits)))

\* len(col.value_counts()) == 1
IsConstant(col) == Cardinality(value_counts(col)) = 1

\* a variant whose result starts at 0
InitialResult_zero == PyInt(0)

\* result=-1, the value returned when no statistic is computed
InitialResult == PyInt(-1)

\* what a call that computes no statistic did
NotComputed(message) ==
    [result |-> Round(InitialResult, 6), printed |-> message,
     correct |-> "not called", yates |-> FALSE, shape |-> <<0, 0>>,
     n |-> 0, phi2corr |-> <<0, 1>>, divisor |-> <<0, 1>>]

\* cramers_corrected_stat dividing by max(kcorr-1, rcorr-1)
cramers_corrected_stat_larger_divisor(x, y, excess) ==
    IF IsConstant(x) THEN NotComputed("First variable is constant")
    ELSE IF IsConstant(y) THEN NotComputed("Second variable is constant")
    ELSE
        LET conf_matrix == crosstab(x, y)
            correct == ~(Shape(conf_matrix)[1] = 2)
            chi2 == chi2_contingency(conf_matrix, correct)
            n == SumSeq(ColumnSums(conf_matrix))
            phi2 == RatDiv(chi2.statistic, <<n, 1>>)
            r == Shape(conf_matrix)[1]
            k == Shape(conf_matrix)[2]
            bias == RatSub(phi2, Frac((k - 1) * (r - 1), n - 1))
            phi2corr == IF RatLess(<<0, 1>>, bias) THEN bias ELSE <<0, 1>>
            rcorr == RatSub(<<r, 1>>, Frac((r - 1) * (r - 1), n - 1))
            kcorr == RatSub(<<k, 1>>, Frac((k - 1) * (k - 1), n - 1))
            k1 == RatSub(kcorr, <<1, 1>>)
            r1 == RatSub(rcorr, <<1, 1>>)
            divisor == IF RatLess(r1, k1) THEN k1 ELSE r1
            quotient == RatDiv(phi2corr, divisor)
            result ==
                IF divisor[1] = 0
                THEN (IF phi2corr[1] # 0 \/ (bias[1] = 0 /\ excess)
                      THEN Inf ELSE NaN)
                ELSE IF quotient[1] < 0 THEN NaN
                ELSE NpSqrt(quotient)
        IN  [result |-> Round(result, 6), printed |-> "",
             correct |-> IF correct THEN "True" ELSE "False",
             yates |-> chi2.yates, shape |-> Shape(conf_matrix),
             n |-> n, phi2corr |-> phi2corr, divisor |-> divisor]

\* cramers_corrected_stat(x, y): the value returned and what the call did.
\* phi2 - (k-1)(r-1)/(n-1) is computed in floating point: where its exact
\* value is 0 the float is 0 or, when rounding left chi2 in excess, a tiny
\* positive number, which decides between 0/0 = nan and tiny/0 = inf when
\* the divisor is 0; divided by a positive divisor both round to 0.0.
cramers_corrected_stat(x, y, excess) ==
    IF IsConstant(x) THEN NotComputed("First variable is constant")
    ELSE IF IsConstant(y) THEN NotComputed("Second variable is constant")
    ELSE
        LET conf_matrix == crosstab(x, y)
            correct == ~(Shape(conf_matrix)[1] = 2)
            chi2 == chi2_contingency(conf_matrix, correct)
            n == SumSeq(ColumnSums(conf_matrix))
            phi2 == RatDiv(chi2.statistic, <<n, 1>>)
            r == Shape(conf_matrix)[1]
            k == Shape(conf_matrix)[2]
            bias == RatSub(phi2, Frac((k - 1) * (r - 1), n - 1))
            phi2corr == IF RatLess(<<0, 1>>, bias) THEN bias ELSE <<0, 1>>
            rcorr == RatSub(<<r, 1>>, Frac((r - 1) * (r - 1), n - 1))
            kcorr == RatSub(<<k, 1>>, Frac((k - 1) * (k - 1), n - 1))
            k1 == RatSub(kcorr, <<1, 1>>)
            r1 == RatSub(rcorr, <<1, 1>>)
            divisor == IF RatLess(r1, k1) THEN r1 ELSE k1
            quotient == RatDiv(phi2corr, divisor)
            result ==
                IF divisor[1] = 0
                THEN (IF phi2corr[1] # 0 \/ (bias[1] = 0 /\ excess)
                      THEN Inf ELSE NaN)
                ELSE IF quotient[1] < 0 THEN NaN
                ELSE NpSqrt(quotient)
        IN  [result |-> Round(result, 6), printed |-> "",
             correct |-> IF correct THEN "True" ELSE "False",
             yates |-> chi2.yates, shape |-> Shape(conf_matrix),
             n |-> n, phi2corr |-> phi2corr, divisor |-> divisor]

-----------------------------------------------------------------------------
(* cramers_matrix *)

\* np.array(rows): one float among the entries makes every entry a float
NpArray(m) ==
    IF \A c \in DOMAIN m : m[c].kind = "int" THEN m
    ELSE [c \in DOMAIN m |->
            IF m[c].kind = "int" THEN Float(<<m[c].num, 1>>) ELSE m[c]]

\* cramers_matrix(dataf): the calls of cramers_corrected_stat it makes, and
\* the matrix returned: entry [var1, var2] is the statistic of the columns
\* var1 and var2, rounded to 2 decimals.  excess is the set of calls whose
\* chi2 floating-point rounding left in excess.
cramers_matrix(df, excess) ==
    LET calls == [var1 \in DOMAIN df, var2 \in DOMAIN df |->
                    cramers_corrected_stat(df[var1], df[var2],
                                           <<var1, var2>> \in excess)]
    IN  [calls |-> calls,
         df_resultat |-> NpArray([c \in DOMAIN calls |->
                                    Round(calls[c].result, 2)])]

-----------------------------------------------------------------------------
(* Inputs of cramers_matrix *)

ColumnNames == {"A", "B"}

CategoryOrder == <<"a", "b", "c">>

\* Columns of n categorical values without missing values, the categories
\* named in order of first appearance.
Columns(n) ==
    {[i \in 1..n |-> CategoryOrder[c[i]]] :
        c \in {c \in [1..n -> DOMAIN CategoryOrder] :
                 \A i \in 1..n :
                    c[i] = 1 \/ \E j \in 1..(i - 1) : c[j] = c[i] - 1}}

DataFrames == UNION {[ColumnNames -> Columns(n)] : n \in 1..MaxRows}

\* the calls in which a column has as many distinct values as rows, the
\* only ones whose divisor min(kcorr-1, rcorr-1) is 0
ZeroDivisorCalls(df) ==
    {c \in (DOMAIN df) \X (DOMAIN df) :
        /\ ~IsConstant(df[c[1]]) /\ ~IsConstant(df[c[2]])
        /\ \E v \in {c[1], c[2]} : Cardinality(value_counts(df[v])) = Len(df[v])}

-----------------------------------------------------------------------------
(* The calls of cramers_matrix *)

CrmInit ==
    /\ dataf \in DataFrames
    /\ crm_pc = "frame"
    /\ df_resultat = <<>>
    /\ crm_calls = <<>>

\* no association matrix is being computed
CrmOff ==
    /\ dataf = <<>>
    /\ crm_pc = "off"
    /\ df_resultat = <<>>
    /\ crm_calls = <<>>

\* df_resultat = cramers_matrix(dataf)
CramersMatrix ==
    /\ crm_pc = "frame"
    /\ crm_pc' = "done"
    /\ \E excess \in SUBSET ZeroDivisorCalls(dataf) :
         LET run == cramers_matrix(dataf, excess)
         IN  /\ df_resultat' = run.df_resultat
             /\ crm_calls' = run.calls
    /\ UNCHANGED dataf

-----------------------------------------------------------------------------
(* Floating-point arithmetic of the metric functions                        *)
(*                                                                          *)
(* The metric functions compute in binary floating point.  The model keeps  *)
(* the shape of IEEE 754 arithmetic (round to nearest, ties to even,        *)
(* gradual underflow, overflow to infinity, nan) on a format of Precision   *)
(* significand bits and exponents -MaxExp..MaxExp.  A finite float is an    *)
(* integer number of units, the unit being the smallest positive float;     *)
(* values are shown as exact fractions.  The sign of zero is not kept.      *)

\* the float 1.0 in units: 2^(Precision - 1 + MaxExp)
RECURSIVE Pow2(_)
Pow2(n) == IF n = 0 THEN 1 ELSE 2 * Pow2(n - 1)

One == Pow2(Precision - 1 + MaxExp)

\* the largest finite float in units
MaxUnits == (Pow2(Precision) - 1) * Pow2(2 * MaxExp)

\* distance between neighbouring floats around k units
RECURSIVE Spacing(_)
Spacing(k) == IF k < Pow2(Precision) THEN 1 ELSE 2 * Spacing(k \div 2)

SignedInf(s) == [Inf EXCEPT !.num = s]

Sign(x) == IF x < 0 THEN -1 ELSE 1

Units(v) == (v.num * One) \div v.den

FromUnits(k) == Float(Frac(k, One))

\* n/d units (d > 0) rounded to the nearest float, ties to even
RoundUnits(n, d) ==
    LET a == Abs(n)
        k == a \div d
        s == Spacing(k)
        lo == (k \div s) * s
        twice == 2 * (a - lo * d)
        up == twice > s * d \/ (twice = s * d /\ (lo \div s) % 2 = 1)
        r == IF up THEN lo + s ELSE lo
    IN  IF r > MaxUnits THEN SignedInf(Sign(n)) ELSE FromUnits(Sign(n) * r)

RECURSIVE ISqrtBetween(_, _, _)
ISqrtBetween(x, lo, hi) ==
    IF hi - lo <= 1 THEN lo
    ELSE LET mid == (lo + hi) \div 2
         IN  IF mid * mid <= x THEN ISqrtBetween(x, mid, hi)
             ELSE ISqrtBetween(x, lo, mid)

IsFinite(v) == v.kind = "float"

IsZero(v) == v.kind = "float" /\ v.num = 0

FNeg(a) ==
    IF a.kind = "nan" THEN a
    ELSE IF a.kind = "inf" THEN SignedInf(-a.num)
    ELSE Float(<<-a.num, a.den>>)

FAbs(a) ==
    IF a.kind = "nan" THEN a
    ELSE IF a.kind = "inf" THEN SignedInf(1)
    ELSE Float(<<Abs(a.num), a.den>>)

FAdd(a, b) ==
    IF a.kind = "nan" \/ b.kind = "nan" THEN NaN
    ELSE IF a.kind = "inf" /\ b.kind = "inf"
         THEN IF a.num = b.num THEN a ELSE NaN
    ELSE IF a.kind = "inf" THEN a
    ELSE IF b.kind = "inf" THEN b
    ELSE RoundUnits(Units(a) + Units(b), 1)

FSub(a, b) == FAdd(a, FNeg(b))

FMul(a, b) ==
    IF a.kind = "nan" \/ b.kind = "nan" THEN NaN
    ELSE IF a.kind = "inf" \/ b.kind = "inf"
         THEN IF IsZero(a) \/ IsZero(b) THEN NaN
              ELSE SignedInf(Sign(a.num) * Sign(b.num))
    ELSE RoundUnits(Units(a) * Units(b), One)

\* numpy's true division: a division by zero gives inf or nan
FDiv(a, b) ==
    IF a.kind = "nan" \/ b.kind = "nan" THEN NaN
    ELSE IF a.kind = "inf"
         THEN IF b.kind = "inf" THEN NaN
              ELSE SignedInf(a.num * Sign(b.num))
    ELSE IF b.kind = "inf" THEN FromUnits(0)
    ELSE IF IsZero(b)
         THEN IF IsZero(a) THEN NaN ELSE SignedInf(Sign(a.num))
    ELSE RoundUnits(Sign(b.num) * Units(a) * One, Abs(Units(b)))

\* numpy.sqrt, correctly rounded
FSqrt(a) ==
    IF a.kind = "nan" THEN NaN
    ELSE IF a.kind = "inf" THEN IF a.num > 0 THEN a ELSE NaN
    ELSE IF a.num < 0 THEN NaN
    ELSE LET x == Units(a) * One
             f == ISqrtBetween(x, 0, x + 1)
             s == Spacing(f)
             lo == (f \div s) * s
             mid2 == (2 * lo + s) * (2 * lo + s)
             up == 4 * x > mid2 \/ (4 * x = mid2 /\ (lo \div s) % 2 = 1)
         IN  FromUnits(IF up THEN lo + s ELSE lo)

\* a Python int as a float
FromInt(n) == RoundUnits(n * One, 1)

\* ndarray.sum() of a short array: the elements added from left to right
RECURSIVE FSumFrom(_, _, _)
FSumFrom(a, i, acc) ==
    IF i > Len(a) THEN acc ELSE FSumFrom(a, i + 1, FAdd(acc, a[i]))

FSum(a) == FSumFrom(a, 2, a[1])

\* numpy.average(a) without weights: a.mean() = sum / count
NpAverage(a) == FDiv(FSum(a), FromInt(Len(a)))

\* x == y on floats: nan equals nothing
FEq(a, b) ==
    /\ a.kind # "nan" /\ b.kind # "nan"
    /\ a.kind = b.kind /\ a.num = b.num /\ a.den = b.den

\* x < y on floats
FLess(a, b) ==
    /\ a.kind # "nan" /\ b.kind # "nan"
    /\ IF a.kind = "inf" THEN a.num < 0 /\ ~(b.kind = "inf" /\ b.num < 0)
       ELSE IF b.kind = "inf" THEN b.num > 0
       ELSE a.num * b.den < b.num * a.den

-----------------------------------------------------------------------------
(* The metric functions *)

Returned(v) == [raised |-> FALSE, exc |-> "", value |-> v]

Raised(e) == [raised |-> TRUE, exc |-> e, value |-> NaN]

\* f"{v:.4f}"
Format4f(v) ==
    IF v.kind = "float" THEN [Round(v, 4) EXCEPT !.kind = "str"]
    ELSE [v EXCEPT !.kind = "str " \o v.kind]

\* sklearn's input validation: equal lengths, at least one sample
ConsistentLength(y_true, y_pred) ==
    Len(y_true) = Len(y_pred) /\ Len(y_true) >= 1

Squares(a) == [i \in DOMAIN a |-> FMul(a[i], a[i])]

\* sklearn.metrics.mean_squared_error: average((y_true - y_pred) ** 2)
mean_squared_error(y_true, y_pred) ==
    IF ~ConsistentLength(y_true, y_pred) THEN Raised("ValueError")
    ELSE Returned(NpAverage(
             Squares([i \in DOMAIN y_true |-> FSub(y_true[i], y_pred[i])])))

\* the mean error without the absolute value
mean_absolute_error_signed(y_true, y_pred) ==
    IF ~ConsistentLength(y_true, y_pred) THEN Raised("ValueError")
    ELSE Returned(NpAverage(
             [i \in DOMAIN y_true |-> FSub(y_pred[i], y_true[i])]))

\* sklearn.metrics.mean_absolute_error: average(abs(y_pred - y_true))
mean_absolute_error(y_true, y_pred) ==
    IF ~ConsistentLength(y_true, y_pred) THEN Raised("ValueError")
    ELSE Returned(NpAverage(
             [i \in DOMAIN y_true |-> FAbs(FSub(y_pred[i], y_true[i]))]))

\* r2_score without the special cases of a zero numerator or denominator
r2_score_plain_ratio(y_true, y_pred) ==
    IF ~ConsistentLength(y_true, y_pred) THEN Raised("ValueError")
    ELSE IF Len(y_pred) < 2 THEN Returned(NaN)
    ELSE LET avg == NpAverage(y_true)
             numerator ==
                 FSum(Squares([i \in DOMAIN y_true |->
                                   FSub(y_true[i], y_pred[i])]))
             denominator ==
                 FSum(Squares([i \in DOMAIN y_true |-> FSub(y_true[i], avg)]))
         IN  Returned(FSub(FromInt(1), FDiv(numerator, denominator)))

\* sklearn.metrics.r2_score: nan below two samples; 1 - numerator /
\* denominator when both are non-zero, 0.0 when only the denominator is
\* zero, 1.0 when the numerator is zero
r2_score(y_true, y_pred) ==
    IF ~ConsistentLength(y_true, y_pred) THEN Raised("ValueError")
    ELSE IF Len(y_pred) < 2 THEN Returned(NaN)
    ELSE LET avg == NpAverage(y_true)
             numerator ==
                 FSum(Squares([i \in DOMAIN y_true |->
                                   FSub(y_true[i], y_pred[i])]))
             denominator ==
                 FSum(Squares([i \in DOMAIN y_true |-> FSub(y_true[i], avg)]))
         IN  IF ~IsZero(numerator) /\ ~IsZero(denominator)
             THEN Returned(FSub(FromInt(1), FDiv(numerator, denominator)))
             ELSE IF ~IsZero(numerator) THEN Returned(FromInt(0))
             ELSE Returned(FromInt(1))

rmse_score(y_true, y_pred, as_int) ==
    LET Rooted(mse, rmse) ==
            IF mse.raised THEN mse
            ELSE IF as_int THEN Returned(rmse)
            ELSE Returned(Format4f(rmse))
        Squared(mse) == Rooted(mse, FSqrt(mse.value))
    IN  Squared(mean_squared_error(y_true, y_pred))

mae_score(y_true, y_pred, as_int) ==
    LET Formatted(mae) ==
            IF mae.raised THEN mae
            ELSE IF as_int THEN mae
            ELSE Returned(Format4f(mae.value))
    IN  Formatted(mean_absolute_error(y_true, y_pred))

r2(y_true, y_pred, as_float) ==
    LET Formatted(score_r2) ==
            IF score_r2.raised THEN score_r2
            ELSE IF as_float THEN score_r2
            ELSE Returned(Format4f(score_r2.value))
    IN  Formatted(r2_score(y_true, y_pred))

\* adjusted_r2 dividing by n - p
adjusted_r2_no_intercept(y_true, X_df, r2_value, numpy_scalar, as_float) ==
    LET n == Len(y_true)
        p == X_df.shape[2]
        product == FMul(FSub(FromInt(1), r2_value), FromInt(n - 1))
        quotient == FDiv(product, FromInt(n - p))
        adjusted == FSub(FromInt(1), quotient)
    IN  IF n - p = 0 /\ ~numpy_scalar THEN Raised("ZeroDivisionError")
        ELSE IF as_float THEN Returned(adjusted)
        ELSE Returned(Format4f(adjusted))

\* 1 - (1 - r2) * (n - 1) / (n - p - 1).  The divisor is a Python int: when
\* it is 0 a Python float dividend raises ZeroDivisionError and a numpy
\* float64 dividend (numpy_scalar) gives inf or nan with a warning.
adjusted_r2(y_true, X_df, r2_value, numpy_scalar, as_float) ==
    LET n == Len(y_true)
        p == X_df.shape[2]
        product == FMul(FSub(FromInt(1), r2_value), FromInt(n - 1))
        quotient == FDiv(product, FromInt(n - p - 1))
        adjusted == FSub(FromInt(1), quotient)
    IN  IF n - p - 1 = 0 /\ ~numpy_scalar THEN Raised("ZeroDivisionError")
        ELSE IF as_float THEN Returned(adjusted)
        ELSE Returned(Format4f(adjusted))

\* the tuple regression_metrics returns, or the first exception raised
MetricsTuple(rmse, mae, r2s, adjusted_r2_score) ==
    IF rmse.raised THEN rmse
    ELSE IF mae.raised THEN mae
    ELSE IF r2s.raised THEN r2s
    ELSE IF adjusted_r2_score.raised THEN adjusted_r2_score
    ELSE Returned(<<rmse.value, mae.value, r2s.value,
                    adjusted_r2_score.value>>)

\* regression_metrics handing the rmse to adjusted_r2
regression_metrics_adjusts_rmse(y_true, y_pred, X_df, numpy_scalar) ==
    LET Adjusting(rmse) ==
            MetricsTuple(rmse, mae_score(y_true, y_pred, TRUE),
                         r2(y_true, y_pred, TRUE),
                         adjusted_r2(y_true, X_df, rmse.value, TRUE, TRUE))
    IN  Adjusting(rmse_score(y_true, y_pred, TRUE))

\* regression_metrics: the four metrics in sequence; numpy_scalar tells
\* whether the installed r2_score returns a numpy float64 or a Python float
regression_metrics(y_true, y_pred, X_df, numpy_scalar) ==
    LET Adjusting(r2s) ==
            MetricsTuple(rmse_score(y_true, y_pred, TRUE),
                         mae_score(y_true, y_pred, TRUE), r2s,
                         adjusted_r2(y_true, X_df, r2s.value,
                                     numpy_scalar /\ Len(y_pred) >= 2, TRUE))
    IN  Adjusting(r2(y_true, y_pred, TRUE))

-----------------------------------------------------------------------------
(* The calls of the metric functions *)

\* scores and predictions: the extremes of the format, 0 and 1
YValues == {FromUnits(-MaxUnits), FromUnits(0), FromUnits(1), FromUnits(One)}

Vectors(n) == [1..n -> YValues]

\* y_true with a y_pred of the same length or one element short
VectorPairs ==
    UNION {Vectors(n) \X (Vectors(n) \cup Vectors(n - 1)) : n \in 1..MaxLen}

\* a feature matrix of the given shape
DataFrame(rows, cols) == [shape |-> <<rows, cols>>]

NoFrame == DataFrame(0, 0)

\* r2 values handed to adjusted_r2
R2Values ==
    {FromUnits(k) : k \in {-MaxUnits, -One, 0, 1, 5, One \div 2, One, MaxUnits}}

NoArgs ==
    [y_true |-> <<>>, y_pred |-> <<>>, X_df |-> NoFrame, r2 |-> NaN,
     numpy_scalar |-> FALSE, as_float |-> TRUE]

MetInit ==
    /\ met_pc = "idle"
    /\ met_fn = ""
    /\ arg_y_true = <<>>
    /\ arg_y_pred = <<>>
    /\ arg_X_df = NoFrame
    /\ met_in = NoArgs
    /\ met_ret = NaN
    /\ met_exc = ""

\* no metric function is being called
MetOff ==
    /\ met_pc = "off"
    /\ met_fn = ""
    /\ arg_y_true = <<>>
    /\ arg_y_pred = <<>>
    /\ arg_X_df = NoFrame
    /\ met_in = NoArgs
    /\ met_ret = NaN
    /\ met_exc = ""

\* the state after a call of fn with the arguments args that ended as res;
\* the metric functions assign to none of their arguments
MetCall(fn, args, res) ==
    /\ met_fn' = fn
    /\ met_in' = args
    /\ arg_y_true' = args.y_true
    /\ arg_y_pred' = args.y_pred
    /\ arg_X_df' = args.X_df
    /\ met_pc' = IF res.raised THEN "raised" ELSE "returned"
    /\ met_exc' = res.exc
    /\ met_ret' = res.value

RmseScore ==
    /\ met_pc = "idle"
    /\ \E v \in VectorPairs, as_int \in BOOLEAN :
           MetCall("rmse_score",
                   [NoArgs EXCEPT !.y_true = v[1], !.y_pred = v[2],
                                  !.as_float = as_int],
                   rmse_score(v[1], v[2], as_int))

MaeScore ==
    /\ met_pc = "idle"
    /\ \E v \in VectorPairs, as_int \in BOOLEAN :
           MetCall("mae_score",
                   [NoArgs EXCEPT !.y_true = v[1], !.y_pred = v[2],
                                  !.as_float = as_int],
                   mae_score(v[1], v[2], as_int))

R2 ==
    /\ met_pc = "idle"
    /\ \E v \in VectorPairs, as_float \in BOOLEAN :
           MetCall("r2",
                   [NoArgs EXCEPT !.y_true = v[1], !.y_pred = v[2],
                                  !.as_float = as_float],
                   r2(v[1], v[2], as_float))

AdjustedR2 ==
    /\ met_pc = "idle"
    /\ \E n \in 1..MaxN, cols \in 0..MaxCols, r2_value \in R2Values,
          numpy_scalar \in BOOLEAN, as_float \in BOOLEAN :
           LET y == [i \in 1..n |-> FromUnits(0)]
               X == DataFrame(n, cols)
           IN  MetCall("adjusted_r2",
                       [NoArgs EXCEPT !.y_true = y, !.X_df = X, !.r2 = r2_value,
                                      !.numpy_scalar = numpy_scalar,
                                      !.as_float = as_float],
                       adjusted_r2(y, X, r2_value, numpy_scalar, as_float))

RegressionMetrics ==
    /\ met_pc = "idle"
    /\ \E v \in VectorPairs, cols \in 0..MaxCols, numpy_scalar \in BOOLEAN :
           LET X == DataFrame(Len(v[1]), cols)
           IN  MetCall("regression_metrics",
                       [NoArgs EXCEPT !.y_true = v[1], !.y_pred = v[2],
                                      !.X_df = X, !.numpy_scalar = numpy_scalar],
                       regression_metrics(v[1], v[2], X, numpy_scalar))


-----------------------------------------------------------------------------
(* Collaborators of the training wrappers                                   *)
(*                                                                          *)
(* A run of a wrapper is the sequence eff of the calls it made to its       *)
(* collaborators (model construction and fitting, cross-validation, the     *)
(* dataset wrapper, the tracking sink) and the exception exc that ended     *)
(* it, "" when it ran to its return.                                        *)

Start == [eff |-> <<>>, exc |-> "", msg |-> <<>>]

\* the next statement calls the collaborator e
Do(run, e) ==
    IF run.exc # "" THEN run ELSE [run EXCEPT !.eff = Append(@, e)]

\* the next statement raises e
Raise(run, e) ==
    IF run.exc # "" THEN run ELSE [run EXCEPT !.exc = e]

\* the next statement raises e with a message that lists names
RaiseListing(run, e, names) ==
    IF run.exc # "" THEN run ELSE [run EXCEPT !.exc = e, !.msg = names]

\* hyperparameter arguments: None, {}, a non-empty list, and dicts
NoneParams == [type |-> "NoneType", keys |-> {}]

DictParams(keys) == [type |-> "dict", keys |-> keys]

ListParams == [type |-> "list", keys |-> {}]

\* bool(params)
Truthy(params) ==
    \/ params.type = "list"
    \/ params.type = "dict" /\ params.keys # {}

\* params.get(key, default)
GetDefault(run, params) ==
    IF params.type = "dict" THEN run ELSE Raise(run, "AttributeError")

\* params[key]
Subscript(run, params, key) ==
    IF params.type # "dict" THEN Raise(run, "TypeError")
    ELSE IF key \notin params.keys THEN Raise(run, "KeyError")
    ELSE run

RECURSIVE SubscriptAll(_, _, _)
SubscriptAll(run, params, keys) ==
    IF keys = <<>> THEN run
    ELSE SubscriptAll(Subscript(run, params, Head(keys)), params, Tail(keys))

\* transform_dataset: the dataset-wrapping call of the tracking library
transform_dataset(run) == Do(run, <<"mlflow.data.from_pandas">>)

\* the metric names logged by every mlflow_* function and the keys read
LoggedMetrics ==
    << <<"train_rmse", "train_rmse_mean">>, <<"test_rmse", "test_rmse_mean">>,
       <<"train_mae", "train_mae_mean">>, <<"test_mae", "test_mae_mean">>,
       <<"train_R2", "train_r2_mean">>, <<"test_R2", "test_r2_mean">> >>

RECURSIVE LogMetrics(_, _, _)
LogMetrics(run, perf, i) ==
    IF i > Len(LoggedMetrics) THEN run
    ELSE IF LoggedMetrics[i][2] \notin DOMAIN perf
         THEN Raise(run, "KeyError")
         ELSE LogMetrics(Do(run, <<"mlflow.log_metric", LoggedMetrics[i][1]>>),
                         perf, i + 1)

RECURSIVE LogParams(_, _, _)
LogParams(run, params, keys) ==
    IF keys = <<>> THEN run
    ELSE LET looked == Subscript(run, params, Head(keys))
         IN  LogParams(Do(looked, <<"mlflow.log_param", Head(keys)>>),
                       params, Tail(keys))

\* with mlflow.start_run(run_name=run_name): the run is ended when the
\* block is left, as failed when an exception leaves it
WithRun(run, body) ==
    IF run.exc # "" THEN run
    ELSE IF body.exc # ""
         THEN [body EXCEPT !.eff = Append(@, <<"mlflow.end_run", "FAILED">>)]
         ELSE Do(body, <<"mlflow.end_run", "FINISHED">>)

\* the statements shared by the four mlflow_* functions: the dataset
\* check, the run, the dataset, the parameters, the six metrics, the tag
\* and the model
MlflowRun(run, perf, params, param_keys, tag, register_dataset, dataset, artifact) ==
    LET checked ==
            IF register_dataset /\ dataset = "None"
            THEN Raise(run, "ValueError") ELSE run
        started == Do(checked, <<"mlflow.start_run">>)
        input == IF register_dataset
                 THEN Do(started, <<"mlflow.log_input">>) ELSE started
        logged == LogMetrics(LogParams(input, params, param_keys), perf, 1)
        tagged == IF tag THEN Do(logged, <<"mlflow.set_tag">>) ELSE logged
    IN  WithRun(checked, Do(tagged, <<"mlflow.sklearn.log_model", artifact>>))

mlflow_linreg(run, perf, register_dataset, dataset) ==
    MlflowRun(run, perf, NoneParams, <<>>, FALSE, register_dataset, dataset,
              "Linear_regression")

mlflow_rforest(run, perf, rf_params, register_dataset, dataset) ==
    MlflowRun(run, perf, rf_params, <<"max_depth">>, FALSE, register_dataset,
              dataset, "Random_forest")

ParamsGuard(run, params) ==
    IF ~Truthy(params) \/ params.type # "dict"
    THEN Raise(run, "ValueError") ELSE run

mlflow_gboost(run, perf, gboost_params, register_dataset, dataset) ==
    MlflowRun(ParamsGuard(run, gboost_params), perf, gboost_params,
              <<"learning_rate", "n_estimators", "max_depth",
                "min_samples_leaf">>,
              FALSE, register_dataset, dataset, "Gradient Boosting")

mlflow_xgboost(run, perf, xgboost_params, register_dataset, dataset) ==
    MlflowRun(ParamsGuard(run, xgboost_params), perf, xgboost_params,
              <<"learning_rate", "max_depth", "n_estimators">>,
              TRUE, register_dataset, dataset, "XGBoost")

-----------------------------------------------------------------------------
(* Model selection functions *)

\* sklearn's get_scorer_names()
get_scorer_names == ScorerNames

InvalidScores(scoring) ==
    \E i \in DOMAIN scoring : scoring[i] \notin get_scorer_names

\* the names of the request, valid or not
InvalidNames_every_name(scoring) == scoring

\* [scoring[idx] for idx, elt in enumerate(score_check) if elt]
InvalidNames(scoring) ==
    LET NotScorer(name) == name \notin get_scorer_names
    IN  SelectSeq(scoring, NotScorer)

\* sklearn's cross_validate: test scores, and train scores on request, one
\* array per scorer; an unknown scorer name is refused
cross_validate(run, cv, scoring, return_train_score, return_estimator) ==
    IF run.exc # "" THEN [run |-> run, dict |-> <<>>]
    ELSE IF InvalidScores(scoring)
    THEN [run |-> Raise(run, "ValueError"), dict |-> <<>>]
    ELSE LET parts == IF return_train_score THEN {"train", "test"}
                      ELSE {"test"}
             ids == {scoring[i] : i \in DOMAIN scoring}
             scores == RawRecord(parts \X ids, DefaultFolds)
         IN  [run |-> Do(run, <<"cross_validate", cv>>),
              dict |-> IF return_estimator
                       THEN DictSet(scores, "estimator", NdArray(<<>>))
                       ELSE scores]

k_fold_cross_val(run, k_fold, stratified, scoring, return_train_score) ==
    LET cv0 == "n_splits"
        cv1 == IF stratified THEN "StratifiedKFold" ELSE cv0
        cv == IF k_fold THEN "KFold" ELSE cv1
    IN  IF run.exc # "" THEN [run |-> run, dict |-> <<>>]
        ELSE IF InvalidScores(scoring)
        THEN [run |-> RaiseListing(run, "ValueError", InvalidNames(scoring)),
              dict |-> <<>>]
        ELSE cross_validate(run, cv, scoring, return_train_score, FALSE)

\* compute_k_fold_cross_val_scores keeping the record of its first run
compute_k_fold_cross_val_scores_first_record(run, k_fold, stratified_k_fold, scoring, return_train_score, return_estimator) ==
    LET plain == cross_validate(run, "n_splits", scoring, return_train_score,
                                return_estimator)
        folded == IF k_fold
                  THEN k_fold_cross_val(plain.run, TRUE, FALSE, scoring,
                                        return_train_score)
                  ELSE plain
        last == IF stratified_k_fold
                THEN k_fold_cross_val(folded.run, TRUE, TRUE, scoring,
                                      return_train_score)
                ELSE folded
    IN  [run |-> last.run, dict |-> plain.dict]

compute_k_fold_cross_val_scores(run, k_fold, stratified_k_fold, scoring, return_train_score, return_estimator) ==
    LET plain == cross_validate(run, "n_splits", scoring, return_train_score,
                                return_estimator)
        folded == IF k_fold
                  THEN k_fold_cross_val(plain.run, TRUE, FALSE, scoring,
                                        return_train_score)
                  ELSE plain
    IN  IF stratified_k_fold
        THEN k_fold_cross_val(folded.run, TRUE, TRUE, scoring,
                              return_train_score)
        ELSE folded

-----------------------------------------------------------------------------
(* Model training functions *)

\* what a wrapper call ended with: its run and the value it returned
Outcome(run, model, perf, preds) ==
    [run |-> run,
     ret |-> IF run.exc # "" THEN [model |-> "", perf_dict |-> <<>>,
                                   predictions |-> FALSE]
             ELSE [model |-> model, perf_dict |-> perf,
                   predictions |-> preds]]

\* the data checks that open every *_train_test wrapper
SplitData(run, data) ==
    IF data \in {"X, y, test_size", "X, y"}
    THEN IF data = "X, y" THEN Raise(run, "ValueError")
         ELSE Do(run, <<"train_test_split">>)
    ELSE IF data = "three splits" THEN Raise(run, "ValueError")
    ELSE run

\* full_df = pd.concat(...); compatible_df = transform_dataset(...)
WrapDataset(run) == transform_dataset(Do(run, <<"pd.concat">>))

\* model.fit(X_train, y_train)
Fit(run, estimator) == Do(Do(run, <<estimator>>), <<"fit">>)

\* the predictions and the two regression_metrics calls of a *_train_test
\* wrapper, stored under the wrapper's eight keys
Scores(run, keys, d, numpy_scalar) ==
    LET Checked(s, metrics) ==
            IF metrics.raised THEN Raise(s, metrics.exc) ELSE s
        Stored(train, test, s) ==
            [run |-> s,
             dict |-> IF s.exc # "" THEN <<>>
                      ELSE [k \in {keys[i] : i \in 1..8} |->
                               LET i == CHOOSE i \in 1..8 : keys[i] = k
                               IN  IF i <= 4 THEN train.value[i]
                                   ELSE test.value[i - 4]]]
        Predicted(train, test) ==
            Stored(train, test,
                   Checked(Do(Checked(Do(run, <<"predict">>), train),
                              <<"predict">>),
                           test))
    IN  Predicted(regression_metrics(d.y_train, d.pred_train, d.X_train,
                                     numpy_scalar),
                  regression_metrics(d.y_test, d.pred_test, d.X_test,
                                     numpy_scalar))

\* if mlflow_register: if not run_name: raise ValueError
RunNameGuard(run, a) ==
    IF a.run_name = "" THEN Raise(run, "ValueError") ELSE run

\* reading compatible_df where only `if register_dataset:` assigns it
UnboundGuard(run, a) ==
    IF a.register_dataset THEN run ELSE Raise(run, "UnboundLocalError")

DatasetOf(a) == IF a.register_dataset THEN "PandasDataset" ELSE "None"

lin_reg_train_test(a) ==
    LET s1 == SplitData(Start, a.data)
        s2 == IF a.register_dataset THEN WrapDataset(s1) ELSE s1
        Registered(sc) ==
            Outcome(IF a.mlflow_register
                    THEN mlflow_linreg(
                             UnboundGuard(RunNameGuard(sc.run, a), a),
                             sc.dict, a.register_dataset, DatasetOf(a))
                    ELSE sc.run,
                    "LinearRegression", sc.dict, FALSE)
    IN  Registered(Scores(Fit(s2, "LinearRegression"),
                          <<"train_rmse", "train_mae", "train_R2",
                            "train_R2_adjusted", "test_rmse", "test_mae",
                            "test_R2", "test_R2_adjusted">>,
                          a.dataset, a.numpy_scalar))

\* the cross-validation, the normalisation of its scores and the dataset
\* wrapping shared by the *_cross_val wrappers
CrossValScores(run, a) ==
    LET Wrapped(s1, tr) ==
            [run |-> IF a.register_dataset THEN WrapDataset(s1) ELSE s1,
             dict |-> IF s1.exc # "" THEN <<>> ELSE tr.dict]
        Transformed(cv, tr) ==
            Wrapped(IF cv.run.exc = "" /\ tr.raised
                    THEN Raise(cv.run, "KeyError") ELSE cv.run,
                    tr)
        Validated(cv) ==
            Transformed(cv, transform_cross_val_scores(cv.dict, a.scoring))
    IN  Validated(compute_k_fold_cross_val_scores(
                      run, a.k_fold, a.stratified_k_fold, a.scoring,
                      a.return_train_score, a.return_estimator))

lin_reg_cross_val(a) ==
    LET Registered(sc) ==
            Outcome(IF a.mlflow_register
                    THEN mlflow_linreg(
                             UnboundGuard(RunNameGuard(sc.run, a), a),
                             sc.dict, a.register_dataset, DatasetOf(a))
                    ELSE sc.run,
                    "", sc.dict, FALSE)
    IN  Registered(CrossValScores(Do(Start, <<"LinearRegression">>), a))

random_forest_train_test(a) ==
    LET s1 == SplitData(Start, a.data)
        \* mlflow_rforest has no max_depth parameter
        Registered(sc) ==
            Outcome(IF a.mlflow_register
                    THEN Raise(Subscript(RunNameGuard(sc.run, a), a.params,
                                         "max_depth"),
                               "TypeError")
                    ELSE sc.run,
                    "RandomForestRegressor", sc.dict, FALSE)
    IN  Registered(Scores(Fit(GetDefault(s1, a.params),
                              "RandomForestRegressor"),
                          <<"train_rmse", "train_mae", "train_R2",
                            "rf_train_r2_adjusted", "test_rmse", "test_mae",
                            "test_R2", "rf_test_r2_adjusted">>,
                          a.dataset, a.numpy_scalar))

random_forest_cross_val(a) ==
    LET s1 == Do(GetDefault(Start, a.params), <<"RandomForestRegressor">>)
        Registered(sc) ==
            Outcome(IF a.mlflow_register
                    THEN mlflow_rforest(
                             UnboundGuard(RunNameGuard(sc.run, a), a),
                             sc.dict, a.params, a.register_dataset,
                             DatasetOf(a))
                    ELSE sc.run,
                    "", sc.dict, FALSE)
    IN  Registered(CrossValScores(s1, [a EXCEPT !.return_estimator = FALSE]))

gradient_boosting_train_test(a) ==
    LET s1 == SplitData(Start, a.data)
        s2 == IF a.register_dataset THEN WrapDataset(s1) ELSE s1
        s3 == ParamsGuard(s2, a.params)
        Registered(sc) ==
            Outcome(IF a.mlflow_register
                    THEN mlflow_gboost(
                             UnboundGuard(RunNameGuard(sc.run, a), a),
                             sc.dict, a.params, a.register_dataset,
                             DatasetOf(a))
                    ELSE sc.run,
                    "GradientBoostingRegressor", sc.dict,
                    a.return_train_test)
    IN  Registered(Scores(Fit(GetDefault(s3, a.params),
                              "GradientBoostingRegressor"),
                          <<"train_rmse", "train_mae", "train_R2",
                            "gboost_train_r2_adjusted", "test_rmse",
                            "test_mae", "test_R2",
                            "gboost_test_r2_adjusted">>,
                          a.dataset, a.numpy_scalar))

gradient_boosting_cross_val(a) ==
    LET s1 == Do(GetDefault(Start, a.params), <<"GradientBoostingRegressor">>)
        Registered(sc) ==
            Outcome(IF a.mlflow_register
                    THEN mlflow_gboost(RunNameGuard(sc.run, a), sc.dict,
                                       a.params, a.register_dataset,
                                       DatasetOf(a))
                    ELSE sc.run,
                    "", sc.dict, FALSE)
    IN  Registered(CrossValScores(s1, [a EXCEPT !.return_estimator = FALSE]))

XgboostKeys ==
    <<"learning_rate", "n_estimators", "max_depth", "verbosity", "n_jobs">>

xgboost_train_test(a) ==
    LET s1 == SplitData(Start, a.data)
        s2 == IF a.register_dataset THEN WrapDataset(s1) ELSE s1
        s3 == SubscriptAll(ParamsGuard(s2, a.params), a.params, XgboostKeys)
        Registered(sc) ==
            Outcome(IF a.mlflow_register
                    THEN mlflow_xgboost(RunNameGuard(sc.run, a), sc.dict,
                                        a.params, a.register_dataset,
                                        DatasetOf(a))
                    ELSE sc.run,
                    "XGBRegressor", sc.dict, a.return_train_test)
    IN  Registered(Scores(Fit(s3, "XGBRegressor"),
                          <<"xgboost_rmse_train", "xgboost_mae_train",
                            "xgboost_r2_train", "xgboost_adjusted_r2_train",
                            "xgboost_rmse_test", "xgboost_mae_test",
                            "xgboost_r2_test", "xgboost_adjusted_r2_test">>,
                          a.dataset, a.numpy_scalar))

xgboost_cross_val(a) ==
    LET s1 == IF Truthy(a.params)
              THEN SubscriptAll(Start, a.params, XgboostKeys) ELSE Start
        Registered(sc) ==
            Outcome(IF a.mlflow_register
                    THEN mlflow_xgboost(RunNameGuard(sc.run, a), sc.dict,
                                        a.params, a.register_dataset,
                                        DatasetOf(a))
                    ELSE sc.run,
                    "", sc.dict, FALSE)
    IN  Registered(CrossValScores(Do(s1, <<"XGBRegressor">>),
                                  [a EXCEPT !.return_estimator = FALSE]))

-----------------------------------------------------------------------------
(* The calls of the training wrappers *)

DataModes == {"X, y, test_size", "X, y", "four splits", "three splits"}

F0 == FromUnits(0)

F1 == FromUnits(One)

\* train and test targets with the predictions of the fitted model, on one
\* feature column: three test rows, and two test rows (n = p + 1)
WrapperData ==
    { [y_train |-> <<F0, F1, F1>>, pred_train |-> <<F0, F1, F1>>,
       X_train |-> DataFrame(3, 1),
       y_test |-> <<F0, F1, F0>>, pred_test |-> <<F1, F1, F0>>,
       X_test |-> DataFrame(3, 1)],
      [y_train |-> <<F0, F1, F1>>, pred_train |-> <<F0, F0, F1>>,
       X_train |-> DataFrame(3, 1),
       y_test |-> <<F0, F1>>, pred_test |-> <<F0, F1>>,
       X_test |-> DataFrame(2, 1)] }

AllParamKeys ==
    {"learning_rate", "n_estimators", "max_depth", "min_samples_leaf",
     "verbosity", "n_jobs"}

ParamValues ==
    {NoneParams, DictParams({}), ListParams, DictParams(AllParamKeys),
     DictParams({"n_estimators"})}

RunNames == {"", "baseline"}

\* scoring lists: known to the normaliser, a scorer it does not know, and
\* a name that is no scorer
WrapperScoring ==
    { <<"neg_root_mean_squared_error">>, AllInOrder,
      <<"neg_mean_squared_error">>, <<"rmse">> }

NoWrapperArgs ==
    [data |-> "", dataset |-> <<>>, numpy_scalar |-> FALSE,
     params |-> NoneParams, mlflow_register |-> FALSE, run_name |-> "",
     register_dataset |-> FALSE, return_train_test |-> FALSE,
     k_fold |-> FALSE, stratified_k_fold |-> FALSE,
     return_train_score |-> FALSE, return_estimator |-> FALSE,
     scoring |-> <<>>, scoring_str |-> ""]

TrainTestArgs(param_values, return_flags) ==
    {[NoWrapperArgs EXCEPT !.data = data, !.dataset = d,
                           !.numpy_scalar = numpy_scalar, !.params = params,
                           !.mlflow_register = mlflow_register,
                           !.run_name = run_name,
                           !.register_dataset = register_dataset,
                           !.return_train_test = return_train_test] :
         data \in DataModes, d \in WrapperData, numpy_scalar \in BOOLEAN,
         params \in param_values, mlflow_register \in BOOLEAN,
         run_name \in RunNames, register_dataset \in BOOLEAN,
         return_train_test \in return_flags}

CrossValArgs(param_values, estimator_flags) ==
    {[NoWrapperArgs EXCEPT !.params = params,
                           !.mlflow_register = mlflow_register,
                           !.run_name = run_name,
                           !.register_dataset = register_dataset,
                           !.k_fold = k_fold,
                           !.stratified_k_fold = stratified_k_fold,
                           !.return_train_score = return_train_score,
                           !.return_estimator = return_estimator,
                           !.scoring = scoring] :
         params \in param_values, mlflow_register \in BOOLEAN,
         run_name \in RunNames, register_dataset \in BOOLEAN,
         k_fold \in BOOLEAN, stratified_k_fold \in BOOLEAN,
         return_train_score \in BOOLEAN, return_estimator \in estimator_flags,
         scoring \in WrapperScoring}

NoReturn == [model |-> "", perf_dict |-> <<>>, predictions |-> FALSE]

WrpInit ==
    /\ wrp_pc = "idle"
    /\ wrp_fn = ""
    /\ wrp_in = NoWrapperArgs
    /\ wrp_eff = <<>>
    /\ wrp_exc = ""
    /\ wrp_msg = <<>>
    /\ wrp_ret = NoReturn

\* no wrapper is being called
WrpOff ==
    /\ wrp_pc = "off"
    /\ wrp_fn = ""
    /\ wrp_in = NoWrapperArgs
    /\ wrp_eff = <<>>
    /\ wrp_exc = ""
    /\ wrp_msg = <<>>
    /\ wrp_ret = NoReturn

\* the state after a call of fn with the arguments a that ended as out
WrapperCall(fn, a, out) ==
    /\ wrp_fn' = fn
    /\ wrp_in' = a
    /\ wrp_eff' = out.run.eff
    /\ wrp_exc' = out.run.exc
    /\ wrp_pc' = IF out.run.exc # "" THEN "raised" ELSE "returned"
    /\ wrp_msg' = out.run.msg
    /\ wrp_ret' = out.ret

\* a Python str is iterated and indexed character by character
Characters ==
    [r2 |-> <<"r", "2">>,
     neg_mean_absolute_error |->
       << "n", "e", "g", "_", "m", "e", "a", "n", "_", "a", "b",
          "s", "o", "l", "u", "t", "e", "_", "e", "r", "r", "o",
          "r" >>]

\* scoring lists that mix scorer names with names that are none
MixedLists ==
    { <<"rmse", "r2", "mse">>, <<"r2", "mse", "rmse">>,
      <<"rmse", "neg_mean_absolute_error", "rmse">> }

\* the scoring arguments of k_fold_cross_val: lists, and single strings
KFoldRequests ==
    {[scoring |-> s, scoring_str |-> ""] : s \in WrapperScoring \cup MixedLists}
    \cup {[scoring |-> Characters[n], scoring_str |-> n] :
              n \in DOMAIN Characters}

KFoldCrossVal ==
    /\ wrp_pc = "idle"
    /\ \E q \in KFoldRequests, k_fold \in BOOLEAN, stratified \in BOOLEAN,
          return_train_score \in BOOLEAN :
           LET a == [NoWrapperArgs EXCEPT
                        !.scoring = q.scoring, !.scoring_str = q.scoring_str,
                        !.k_fold = k_fold, !.stratified_k_fold = stratified,
                        !.return_train_score = return_train_score]
               res == k_fold_cross_val(Start, k_fold, stratified, q.scoring,
                                       return_train_score)
           IN  WrapperCall("k_fold_cross_val", a,
                           Outcome(res.run, "", res.dict, FALSE))

ComputeKFoldCrossValScores ==
    /\ wrp_pc = "idle"
    /\ \E a \in CrossValArgs({NoneParams}, BOOLEAN) :
           /\ ~a.mlflow_register /\ ~a.register_dataset /\ a.run_name = ""
           /\ LET res == compute_k_fold_cross_val_scores(
                             Start, a.k_fold, a.stratified_k_fold, a.scoring,
                             a.return_train_score, a.return_estimator)
              IN  WrapperCall("compute_k_fold_cross_val_scores", a,
                              Outcome(res.run, "", res.dict, FALSE))

LinRegTrainTest ==
    /\ wrp_pc = "idle"
    /\ \E a \in TrainTestArgs({NoneParams}, {FALSE}) :
           WrapperCall("lin_reg_train_test", a, lin_reg_train_test(a))

LinRegCrossVal ==
    /\ wrp_pc = "idle"
    /\ \E a \in CrossValArgs({NoneParams}, BOOLEAN) :
           WrapperCall("lin_reg_cross_val", a, lin_reg_cross_val(a))

RandomForestTrainTest ==
    /\ wrp_pc = "idle"
    /\ \E a \in TrainTestArgs(ParamValues, {FALSE}) :
           /\ ~a.register_dataset
           /\ WrapperCall("random_forest_train_test", a,
                          random_forest_train_test(a))

RandomForestCrossVal ==
    /\ wrp_pc = "idle"
    /\ \E a \in CrossValArgs(ParamValues, {FALSE}) :
           WrapperCall("random_forest_cross_val", a,
                       random_forest_cross_val(a))

GradientBoostingTrainTest ==
    /\ wrp_pc = "idle"
    /\ \E a \in TrainTestArgs(ParamValues, BOOLEAN) :
           WrapperCall("gradient_boosting_train_test", a,
                       gradient_boosting_train_test(a))

GradientBoostingCrossVal ==
    /\ wrp_pc = "idle"
    /\ \E a \in CrossValArgs(ParamValues, {FALSE}) :
           WrapperCall("gradient_boosting_cross_val", a,
                       gradient_boosting_cross_val(a))

XgboostTrainTest ==
    /\ wrp_pc = "idle"
    /\ \E a \in TrainTestArgs(ParamValues, BOOLEAN) :
           WrapperCall("xgboost_train_test", a, xgboost_train_test(a))

XgboostCrossVal ==
    /\ wrp_pc = "idle"
    /\ \E a \in CrossValArgs(ParamValues, {FALSE}) :
           WrapperCall("xgboost_cross_val", a, xgboost_cross_val(a))

-----------------------------------------------------------------------------
(* fill_tracking_df *)

\* the columns of the tracking table, in the order the function writes them
TrackingColumns ==
    <<"sleep_classes", "sampling_strategy", "smote_k_neighbors",
      "random_forest_train_score", "random_forest_test_score",
      "gboost_train_score", "gboost_test_score">>

TrackingColumnNames == {TrackingColumns[p] : p \in DOMAIN TrackingColumns}

\* a cell that isna() reports as missing (NaN, or None given as an argument)
NA == [isna |-> TRUE, value |-> 0]

\* a cell holding the value v
Cell(v) == [isna |-> FALSE, value |-> v]

AllNaNRow == [c \in TrackingColumnNames |-> NA]

\* tracking_df.index.max()
IndexMax(df) == CHOOSE i \in DOMAIN df : \A j \in DOMAIN df : j <= i

\* tracking_df.loc[idx].isna().all()
IsNaAll(df, idx) == \A c \in TrackingColumnNames : df[idx][c].isna

\* tracking_df.loc[idx, col] = v : a label that is not in the index yet
\* enlarges the table by a row that is missing everywhere else
LocSet(df, idx, col, v) ==
    [i \in DOMAIN df \cup {idx} |->
        IF i = idx
        THEN [(IF i \in DOMAIN df THEN df[i] ELSE AllNaNRow) EXCEPT ![col] = v]
        ELSE df[i]]

\* the first n column writes of the function, at the index append_idx
RECURSIVE WriteColumns(_, _, _, _)
WriteColumns(df, append_idx, args, n) ==
    IF n = 0
    THEN df
    ELSE LocSet(WriteColumns(df, append_idx, args, n - 1), append_idx,
                TrackingColumns[n], args[TrackingColumns[n]])

\* the index the function writes at
AppendIdx(df) ==
    LET max_idx == IndexMax(df)
    IN  IF ~IsNaAll(df, max_idx) THEN max_idx + 1 ELSE max_idx

\* the table after fill_tracking_df(tracking_df, ...), which changes the
\* table in place and returns nothing
fill_tracking_df_overwrites(df, args) ==
    WriteColumns(df, IndexMax(df), args, Len(TrackingColumns))

fill_tracking_df(df, args) ==
    WriteColumns(df, AppendIdx(df), args, Len(TrackingColumns))

\* the first index of a fresh tracking table
StartIndices == {0, 1}

\* the value of the column at position p in the call numbered v
ArgValue(v, p) == 10 * v + p

\* arguments of a call: seven values, or some of them None
FilledArgs ==
    {[c \in TrackingColumnNames |->
        Cell(ArgValue(v, CHOOSE p \in DOMAIN TrackingColumns :
                             TrackingColumns[p] = c))] : v \in 1..2}

MissingArgs ==
    {[c \in TrackingColumnNames |-> IF c \in m THEN NA ELSE Cell(1)] :
        m \in {{"gboost_test_score"},
               {"gboost_train_score", "gboost_test_score"},
               TrackingColumnNames}}

CallArguments == FilledArgs \cup MissingArgs

\* a fresh tracking table: one row, nothing filled
TrkInit ==
    /\ \E s \in StartIndices : tracking_df = [i \in {s} |-> AllNaNRow]
    /\ trk_pc = "idle"
    /\ trk_before = tracking_df
    /\ trk_args = <<>>
    /\ trk_idx = 0

\* no tracking table is being filled
TrkOff ==
    /\ tracking_df = [i \in {} |-> AllNaNRow]
    /\ trk_pc = "off"
    /\ trk_before = tracking_df
    /\ trk_args = <<>>
    /\ trk_idx = 0

FillTrackingDf ==
    /\ trk_pc # "off"
    /\ Len(trk_args) < MaxCalls
    /\ \E args \in CallArguments :
           /\ tracking_df' = fill_tracking_df(tracking_df, args)
           /\ trk_idx' = AppendIdx(tracking_df)
           /\ trk_args' = Append(trk_args, args)
    /\ trk_before' = tracking_df
    /\ trk_pc' = "returned"

-----------------------------------------------------------------------------
(* Specifications *)

vars == <<tcvVars, cmpVars, crmVars, metVars, wrpVars, trkVars>>

TcvNext ==
    /\ \/ TransformCrossValScores
       \/ TransformCrossValScoresAgain
    /\ UNCHANGED <<cmpVars, crmVars, metVars, wrpVars, trkVars>>

InitTcv == TcvInit /\ CmpOff /\ CrmOff /\ MetOff /\ WrpOff /\ TrkOff

SpecTcv == InitTcv /\ [][TcvNext]_vars

CmpNext == FillComparisonDf /\ UNCHANGED <<tcvVars, crmVars, metVars, wrpVars, trkVars>>

InitCmp == CmpInit /\ TcvOff /\ CrmOff /\ MetOff /\ WrpOff /\ TrkOff

SpecCmp == InitCmp /\ [][CmpNext]_vars

CrmNext == CramersMatrix /\ UNCHANGED <<tcvVars, cmpVars, metVars, wrpVars, trkVars>>

InitCrm == CrmInit /\ TcvOff /\ CmpOff /\ MetOff /\ WrpOff /\ TrkOff

SpecCrm == InitCrm /\ [][CrmNext]_vars

MetNext ==
    /\ \/ RmseScore
       \/ MaeScore
       \/ R2
       \/ AdjustedR2
       \/ RegressionMetrics
    /\ UNCHANGED <<tcvVars, cmpVars, crmVars, wrpVars, trkVars>>

InitMet == MetInit /\ TcvOff /\ CmpOff /\ CrmOff /\ WrpOff /\ TrkOff

SpecMet == InitMet /\ [][MetNext]_vars

WrpNext ==
    /\ \/ KFoldCrossVal
       \/ ComputeKFoldCrossValScores
       \/ LinRegTrainTest
       \/ LinRegCrossVal
       \/ RandomForestTrainTest
       \/ RandomForestCrossVal
       \/ GradientBoostingTrainTest
       \/ GradientBoostingCrossVal
       \/ XgboostTrainTest
       \/ XgboostCrossVal
    /\ UNCHANGED <<tcvVars, cmpVars, crmVars, metVars, trkVars>>

InitWrp == WrpInit /\ TcvOff /\ CmpOff /\ CrmOff /\ MetOff /\ TrkOff

SpecWrp == InitWrp /\ [][WrpNext]_vars

TrkNext == FillTrackingDf /\ UNCHANGED <<tcvVars, cmpVars, crmVars, metVars, wrpVars>>

InitTrk == TrkInit /\ TcvOff /\ CmpOff /\ CrmOff /\ MetOff /\ WrpOff

SpecTrk == InitTrk /\ [][TrkNext]_vars

-----------------------------------------------------------------------------
(* Properties of transform_cross_val_scores *)

TcvCalled == tcv_pc \in {"returned", "raised"}

DerivedKey(part, s, stat) == part \o "_" \o mapping[s] \o "_" \o stat

\* the keys a successful call with this scoring list adds
DerivedKeys(scoring) ==
    {DerivedKey(part, scoring[i], stat) :
        part \in Parts, i \in DOMAIN scoring, stat \in {"mean", "std"}}

\* the record is as it was when the call was made
TcvRecordUntouched == perf_dict = tcv_arg

HasUnknownId(scoring) == \E i \in DOMAIN scoring : scoring[i] \notin DOMAIN mapping

HasMissingRawKey(d, scoring) ==
    \E i \in DOMAIN scoring :
        /\ scoring[i] \in DOMAIN mapping
        /\ \E part \in Parts : RawKey(part, scoring[i]) \notin DOMAIN d

\* C1: a call whose scoring list holds an identifier absent from the
\* translation table, at any position, raises and leaves the record with no
\* newly written *_mean / *_std key (stated for records that hold every
\* raw key of the known identifiers requested).
C1_UnknownIdLeavesNoKeys ==
    (TcvCalled /\ HasUnknownId(tcv_scoring)
               /\ ~HasMissingRawKey(tcv_arg, tcv_scoring))
        => (tcv_pc = "raised" /\ TcvRecordUntouched)

\* C2: a call with a known identifier whose raw key train_{id} or
\* test_{id} is missing from the record raises, and the record holds none
\* of the new keys of that call (stated for scoring lists of known
\* identifiers only).
C2_MissingRawKeyLeavesNoKeys ==
    (TcvCalled /\ HasMissingRawKey(tcv_arg, tcv_scoring)
               /\ ~HasUnknownId(tcv_scoring))
        => (tcv_pc = "raised" /\ TcvRecordUntouched)

SumAbs(a) == SumSeq([i \in DOMAIN a |-> IF a[i] < 0 THEN -a[i] ELSE a[i]])

SumSquares(a) == SumSeq([i \in DOMAIN a |-> a[i] * a[i]])

\* v is the arithmetic mean of the absolute values of a
IsMeanOfAbs(v, a) ==
    /\ v.kind = "float" /\ v.root = 1
    /\ v.num * Len(a) = v.den * SumAbs(a)

\* v is the population standard deviation of the absolute values of a:
\* v >= 0 and v^2 = E[x^2] - E[x]^2 = (n * sum x^2 - (sum |x|)^2) / n^2
IsPopulationStdOfAbs(v, a) ==
    LET n == Len(a)
        t == n * SumSquares(a) - SumAbs(a) * SumAbs(a)
    IN  /\ v.kind = "float" /\ v.num >= 0 /\ v.den > 0
        /\ \/ v.root = 2 /\ v.num * n * n = v.den * t
           \/ v.root = 1 /\ v.num * v.num * n * n = v.den * v.den * t

\* C3: after a successful call, for every requested identifier and each
\* partition, {part}_{metric}_mean holds the mean of the absolute values of
\* the per-fold scores {part}_{id} and {part}_{metric}_std their population
\* standard deviation; train scores [-1,-2,-3] give mean 2 and test scores
\* [-4,-5] give mean 4.5.
C3_MeanAndStdOfAbs ==
    tcv_pc = "returned" =>
        \A i \in DOMAIN tcv_scoring : \A part \in Parts :
            LET id == tcv_scoring[i]
                a == tcv_arg[RawKey(part, id)].arr
                m == perf_dict[DerivedKey(part, id, "mean")]
            IN  /\ IsMeanOfAbs(m, a)
                /\ IsPopulationStdOfAbs(perf_dict[DerivedKey(part, id, "std")], a)
                /\ a = <<-1, -2, -3>> => (m.num = 2 /\ m.den = 1)
                /\ a = <<-4, -5>> => (m.num = 9 /\ m.den = 2)

\* a successful call on the scores of the worked example, whose train
\* standard deviation sqrt(2/3) is no rational number
C3_Witness ==
    /\ tcv_pc = "returned"
    /\ tcv_scoring = <<"neg_root_mean_squared_error">>
    /\ tcv_arg["train_neg_root_mean_squared_error"].arr = <<-1, -2, -3>>
    /\ tcv_arg["test_neg_root_mean_squared_error"].arr = <<-4, -5>>
    /\ perf_dict["train_rmse_mean"] = Float(<<2, 1>>)
    /\ perf_dict["test_rmse_mean"] = Float(<<9, 2>>)
    /\ perf_dict["train_rmse_std"].root = 2
    /\ perf_dict["test_rmse_std"] = Float(<<1, 2>>)

\* C4: a successful call returns the record it was given; its key set is
\* the input key set plus exactly the four derived keys of each requested
\* metric, and every per-fold entry of the input is still there, unchanged.
C4_SameRecordPlusFourKeys ==
    tcv_pc = "returned" =>
        /\ tcv_ret = "perf_dict"
        /\ DOMAIN perf_dict = DOMAIN tcv_arg \cup DerivedKeys(tcv_scoring)
        /\ \A k \in DOMAIN tcv_arg :
              tcv_arg[k].kind = "ndarray" => perf_dict[k] = tcv_arg[k]

\* a successful call for two metrics: eight keys more than the input
C4_Witness ==
    /\ tcv_pc = "returned"
    /\ tcv_ret = "perf_dict"
    /\ Len(tcv_scoring) = 2 /\ tcv_scoring[1] # tcv_scoring[2]
    /\ Cardinality(DOMAIN perf_dict) = Cardinality(DOMAIN tcv_arg) + 8
    /\ DOMAIN tcv_arg \subseteq DOMAIN perf_dict

-----------------------------------------------------------------------------
(* Properties of fill_comparison_df *)

FourKeySet(metrics) == {part \o "_" \o metrics \o "_" \o stat :
                          part \in Parts, stat \in {"mean", "std"}}

CmpKeyMissing ==
    \E k \in FourKeySet(cmp_call.metrics) : k \notin DOMAIN cmp_call.model_metrics

\* C6: a call raises when any of the four keys is missing from
\* model_metrics, and then the table is exactly as it was before the call.
C6_MissingKeyRaisesTableUnchanged ==
    (cmp_pc \in {"returned", "raised"} /\ CmpKeyMissing)
        => (cmp_pc = "raised" /\ comparison_df = cmp_before)

\* a call that raised on a record holding some of the four keys but not
\* all, for a name the table already had
C6_Witness ==
    /\ cmp_pc = "raised"
    /\ FourKeySet(cmp_call.metrics) \cap DOMAIN cmp_call.model_metrics # {}
    /\ cmp_call.model_name \in DOMAIN cmp_before
    /\ comparison_df = cmp_before

-----------------------------------------------------------------------------
(* Properties of cramers_corrected_stat and cramers_matrix *)

CrmDone == crm_pc = "done"

\* the value -1, as the int of line 120 or as a float of the matrix
IsMinusOne(v) == v.kind \in {"int", "float"} /\ v.root = 1 /\ v.num = -1 /\ v.den = 1

\* the column has exactly one distinct value
OneDistinctValue(col) == \A i \in DOMAIN col : col[i] = col[1]

HasConstantColumn(c) ==
    OneDistinctValue(dataf[c[1]]) \/ OneDistinctValue(dataf[c[2]])

\* C7: cramers_corrected_stat returns the sentinel -1 and prints a
\* diagnostic message whenever the first or the second column has exactly
\* one distinct value, and returns -1 in no other case.
C7_SentinelIffConstantColumn ==
    CrmDone =>
        \A c \in DOMAIN crm_calls :
            /\ HasConstantColumn(c) =>
                  /\ crm_calls[c].result = PyInt(-1)
                  /\ crm_calls[c].printed =
                        (IF OneDistinctValue(dataf[c[1]])
                         THEN "First variable is constant"
                         ELSE "Second variable is constant")
            /\ ~HasConstantColumn(c) =>
                  /\ ~IsMinusOne(crm_calls[c].result)
                  /\ crm_calls[c].printed = ""

\* a frame with a constant first column and a second one that varies: three
\* calls return the sentinel, the fourth a computed value
C7_Witness ==
    /\ CrmDone
    /\ crm_calls[<<"A", "B">>].printed = "First variable is constant"
    /\ crm_calls[<<"B", "A">>].printed = "Second variable is constant"
    /\ crm_calls[<<"A", "B">>].result = PyInt(-1)
    /\ crm_calls[<<"B", "A">>].result = PyInt(-1)
    /\ crm_calls[<<"B", "B">>].printed = ""
    /\ crm_calls[<<"B", "B">>].result = Float(<<1, 1>>)

\* C8: the chi-squared statistic is computed with the continuity
\* correction enabled exactly when the contingency table is 2x2.
C8_CorrectionExactlyFor2x2 ==
    CrmDone =>
        \A c \in DOMAIN crm_calls :
            crm_calls[c].correct # "not called" =>
                (crm_calls[c].correct = "True" <=> crm_calls[c].shape = <<2, 2>>)

\* Python's ==: nan equals nothing, the int -1 equals the float -1.0
PyEq(a, b) ==
    /\ a.kind # "nan" /\ b.kind # "nan"
    /\ \/ a.kind = "inf" /\ b.kind = "inf"
       \/ /\ a.kind \in {"int", "float"} /\ b.kind \in {"int", "float"}
          /\ a.num = b.num /\ a.den = b.den /\ a.root = b.root

\* C9: the matrix is square, indexed by the column names on both axes, and
\* symmetric: M[i][j] == M[j][i] for every pair of columns.
C9_MatrixSymmetric ==
    CrmDone =>
        /\ DOMAIN df_resultat = (DOMAIN dataf) \X (DOMAIN dataf)
        /\ \A i \in DOMAIN dataf, j \in DOMAIN dataf :
              PyEq(df_resultat[<<i, j>>], df_resultat[<<j, i>>])

\* 0 <= v <= 1
InUnitInterval(v) ==
    /\ v.kind \in {"int", "float"}
    /\ 0 <= v.num /\ v.num <= v.den

\* C10: every entry of the matrix is the sentinel -1 or a number in [0, 1].
C10_EntriesSentinelOrUnitInterval ==
    CrmDone =>
        \A c \in DOMAIN df_resultat :
            IsMinusOne(df_resultat[c]) \/ InUnitInterval(df_resultat[c])

-----------------------------------------------------------------------------
(* Properties of the metric functions *)

MetReturned(fn) == met_fn = fn /\ met_pc = "returned"

MetRaised(fn) == met_fn = fn /\ met_pc = "raised"

\* the fraction a float stands for
RatOf(v) == <<v.num, v.den>>

RatMul(a, b) == Frac(a[1] * b[1], a[2] * b[2])

\* the fraction q is a float of the format
Representable(q) ==
    LET scaled == Frac(q[1] * One, q[2])
        k == Abs(scaled[1])
    IN  /\ scaled[2] = 1
        /\ k <= MaxUnits
        /\ (k \div Spacing(k)) * Spacing(k) = k

\* len(y_true) and the number of columns of X_df of the call
ArgN == Len(met_in.y_true)

ArgP == met_in.X_df.shape[2]

\* the real numbers 1 - r2, (1 - r2)(n - 1), (1 - r2)(n - 1)/(n - p - 1) and
\* 1 - (1 - r2)(n - 1)/(n - p - 1) of the call
RealSteps ==
    LET e1 == RatSub(<<1, 1>>, RatOf(met_in.r2))
        e2 == RatMul(e1, <<ArgN - 1, 1>>)
        e3 == RatDiv(e2, <<ArgN - ArgP - 1, 1>>)
    IN  <<e1, e2, e3, RatSub(<<1, 1>>, e3)>>

\* C11 (as claimed): with zero columns and n >= 2, adjusted_r2 returns
\* exactly r2, for every r2; in general it returns
\* 1 - (1 - r2)(n - 1)/(n - p - 1).
C11_ExactlyR2ForZeroColumns ==
    (/\ MetReturned("adjusted_r2")
     /\ met_in.as_float
     /\ IsFinite(met_in.r2)
     /\ ArgN - ArgP - 1 # 0)
    => /\ ArgP = 0 /\ ArgN >= 2 => FEq(met_ret, met_in.r2)
       /\ IsFinite(met_ret) /\ RatOf(met_ret) = RealSteps[4]

\* C11 (amended): adjusted_r2 returns 1 - (1 - r2)(n - 1)/(n - p - 1) as
\* floating point computes it: whenever none of the four operations
\* rounds, the result is exactly that number, which with zero columns
\* and n >= 2 is r2.
C11_FormulaUpToRounding ==
    (/\ MetReturned("adjusted_r2")
     /\ met_in.as_float
     /\ IsFinite(met_in.r2)
     /\ ArgN - ArgP - 1 # 0
     /\ \A i \in 1..4 : Representable(RealSteps[i]))
    => /\ IsFinite(met_ret) /\ RatOf(met_ret) = RealSteps[4]
       /\ ArgP = 0 /\ ArgN >= 2 => FEq(met_ret, met_in.r2)

\* a call with zero columns, n >= 2 and r2 = 0.5 returned 0.5, and a call
\* with one column returned another number than its r2
C11_Witness ==
    /\ MetReturned("adjusted_r2")
    /\ met_in.as_float
    /\ ArgN >= 2
    /\ \/ ArgP = 0 /\ met_in.r2 = FromUnits(One \div 2) /\ met_ret = met_in.r2
       \/ /\ ArgP = 1 /\ ArgN >= 3 /\ met_in.r2 = FromUnits(One \div 2)
          /\ \A i \in 1..4 : Representable(RealSteps[i])
          /\ met_ret # met_in.r2

\* C12: adjusted_r2 called with len(y_true) <= columns + 1 fails with an
\* error instead of returning a number.
C12_DegenerateDenominatorRaises ==
    (/\ met_fn = "adjusted_r2"
     /\ met_pc \in {"returned", "raised"}
     /\ ArgN <= ArgP + 1)
    => met_pc = "raised"

\* the call was made with default flags on a non-empty y_true and a y_pred
\* of the same length
MetricCall(fn) ==
    /\ met_fn = fn
    /\ met_pc \in {"returned", "raised"}
    /\ met_in.as_float
    /\ Len(met_in.y_true) >= 1
    /\ Len(met_in.y_true) = Len(met_in.y_pred)

SameVector == met_in.y_true = met_in.y_pred

DiffUnits(i) == Units(met_in.y_true[i]) - Units(met_in.y_pred[i])

\* a float that is 0 or more, inf included
NonNegative(v) == v.kind \in {"float", "inf"} /\ v.num >= 0

\* C14 (as claimed): for equal-length finite vectors rmse_score and
\* mae_score are >= 0, and 0 only if the vectors are element-wise equal.
C14_NonNegativeZeroOnlyIfEqual ==
    \A fn \in {"rmse_score", "mae_score"} :
        MetricCall(fn)
        => /\ met_pc = "returned"
           /\ NonNegative(met_ret)
           /\ IsZero(met_ret) => SameVector

\* C14 (amended): for equal-length finite vectors rmse_score and mae_score
\* are >= 0 (inf on overflow) and 0 when the vectors are element-wise
\* equal; mae_score is 0 only if every |y_true[i] - y_pred[i]| is at most
\* n times the smallest positive float, rmse_score only if every squared
\* difference is at most n + 1 times the smallest positive float.
C14_NonNegativeZeroOnlyIfUnderflow ==
    /\ \A fn \in {"rmse_score", "mae_score"} :
           MetricCall(fn)
           => /\ met_pc = "returned"
              /\ NonNegative(met_ret)
              /\ SameVector => IsZero(met_ret)
    /\ MetricCall("mae_score") /\ IsZero(met_ret)
         => \A i \in 1..ArgN : Abs(DiffUnits(i)) <= ArgN
    /\ MetricCall("rmse_score") /\ IsZero(met_ret)
         => \A i \in 1..ArgN : DiffUnits(i) * DiffUnits(i) <= (ArgN + 1) * One

\* rmse_score and mae_score returned a positive number for vectors that
\* differ, and 0 for two equal vectors
C14_Witness ==
    /\ \/ MetricCall("rmse_score")
       \/ MetricCall("mae_score")
    /\ met_pc = "returned"
    /\ ArgN = 2
    /\ \/ ~SameVector /\ IsFinite(met_ret) /\ met_ret.num > 0
       \/ SameVector /\ IsZero(met_ret)

\* the caller's objects are as they were when the call was made
MetArgsUntouched ==
    /\ arg_y_true = met_in.y_true
    /\ arg_y_pred = met_in.y_pred
    /\ arg_X_df = met_in.X_df

\* C15: regression_metrics returns the 4-tuple (rmse, mae, r2, adjusted_r2),
\* whose fourth element is adjusted_r2 of the same y_true, the feature
\* matrix and the third element, and leaves y_true, y_pred and the feature
\* matrix unchanged.  (A nan fourth element counts as equal to the nan
\* adjusted_r2 gives.)
C15_TupleOfFourMetrics ==
    MetReturned("regression_metrics")
    => /\ Len(met_ret) = 4
       /\ rmse_score(met_in.y_true, met_in.y_pred, TRUE) = Returned(met_ret[1])
       /\ mae_score(met_in.y_true, met_in.y_pred, TRUE) = Returned(met_ret[2])
       /\ r2(met_in.y_true, met_in.y_pred, TRUE) = Returned(met_ret[3])
       /\ \E numpy_scalar \in BOOLEAN :
              adjusted_r2(met_in.y_true, met_in.X_df, met_ret[3],
                          numpy_scalar, TRUE) = Returned(met_ret[4])
       /\ MetArgsUntouched

\* regression_metrics returned four finite numbers with an adjusted r2
\* that differs from the r2 and an rmse that differs from the mae
C15_Witness ==
    /\ MetReturned("regression_metrics")
    /\ \A i \in 1..4 : IsFinite(met_ret[i])
    /\ met_ret[1] # met_ret[2]
    /\ met_ret[3] # met_ret[4]
    /\ ArgP >= 1

-----------------------------------------------------------------------------
(* Properties of the training wrappers *)

TrainTestWrappers ==
    {"lin_reg_train_test", "random_forest_train_test",
     "gradient_boosting_train_test", "xgboost_train_test"}

CrossValWrappers ==
    {"lin_reg_cross_val", "random_forest_cross_val",
     "gradient_boosting_cross_val", "xgboost_cross_val"}

WrapperCalled(fns) == wrp_fn \in fns /\ wrp_pc \in {"returned", "raised"}

\* the names of the collaborators the call reached
Reached == {wrp_eff[i][1] : i \in DOMAIN wrp_eff}

Estimators ==
    {"LinearRegression", "RandomForestRegressor", "GradientBoostingRegressor",
     "XGBRegressor"}

SinkCalls ==
    {"mlflow.start_run", "mlflow.log_input", "mlflow.log_param",
     "mlflow.log_metric", "mlflow.set_tag", "mlflow.sklearn.log_model",
     "mlflow.end_run"}

\* the hyperparameters are a dict holding every key a wrapper reads
UsableParams ==
    wrp_fn \in {"lin_reg_train_test", "lin_reg_cross_val"}
    \/ wrp_in.params = DictParams(AllParamKeys)

\* C16: a wrapper called with mlflow_register true and an empty run_name
\* raises with nothing done: no model fitted, no cross-validation run, no
\* dataset wrapped, no call of the tracking sink.
C16_EmptyRunNameFailsFast ==
    (/\ WrapperCalled(TrainTestWrappers \cup CrossValWrappers)
     /\ wrp_in.mlflow_register
     /\ wrp_in.run_name = "")
    => /\ wrp_pc = "raised"
       /\ Reached \cap ({"fit", "cross_validate", "mlflow.data.from_pandas"}
                        \cup SinkCalls) = {}

\* C17: gradient_boosting_train_test and xgboost_train_test called with a
\* missing, empty or non-dict hyperparameter dictionary raise ValueError
\* with no model constructed and no dataset wrapped before the check.
C17_BadParamsRaiseBeforeAnything ==
    (/\ WrapperCalled({"gradient_boosting_train_test", "xgboost_train_test"})
     /\ wrp_in.data \in {"X, y, test_size", "four splits"}
     /\ ~Truthy(wrp_in.params) \/ wrp_in.params.type # "dict")
    => /\ wrp_pc = "raised"
       /\ wrp_exc = "ValueError"
       /\ Reached \cap (Estimators \cup {"fit", "mlflow.data.from_pandas"}
                        \cup SinkCalls) = {}

\* the splitter of the cross-validation whose scores the call handed on
LastSplitter ==
    LET runs == {i \in DOMAIN wrp_eff : wrp_eff[i][1] = "cross_validate"}
        last == CHOOSE i \in runs : \A j \in runs : j <= i
    IN  wrp_eff[last][2]

\* C18: compute_k_fold_cross_val_scores, and so every *_cross_val wrapper,
\* called with stratified_k_fold=True returns scores computed with a
\* stratified k-fold splitter; so does k_fold_cross_val with
\* stratified=True, whatever k_fold is.
C18_StratifiedUsesStratifiedSplitter ==
    (/\ WrapperCalled(CrossValWrappers
                      \cup {"compute_k_fold_cross_val_scores",
                            "k_fold_cross_val"})
     /\ wrp_pc = "returned"
     /\ wrp_in.stratified_k_fold)
    => LastSplitter = "StratifiedKFold"

\* the keys of a record that hold train scores
TrainKeys(d) ==
    {k \in DOMAIN d :
        \E id \in ScorerNames, stat \in {"mean", "std"} :
            \/ k = RawKey("train", id)
            \/ id \in DOMAIN mapping /\ k = DerivedKey("train", id, stat)}

\* C19: a *_cross_val wrapper called with return_train_score=False and a
\* valid scoring list completes without error and returns test scores
\* only, with no train_* entry.
C19_TestScoresOnlyByDefault ==
    (/\ WrapperCalled(CrossValWrappers)
     /\ ~wrp_in.return_train_score
     /\ \A i \in DOMAIN wrp_in.scoring : wrp_in.scoring[i] \in DOMAIN mapping
     /\ ~wrp_in.mlflow_register
     /\ UsableParams)
    => /\ wrp_pc = "returned"
       /\ TrainKeys(wrp_ret.perf_dict) = {}
       /\ \A i \in DOMAIN wrp_in.scoring :
              RawKey("test", wrp_in.scoring[i]) \in DOMAIN wrp_ret.perf_dict

\* C20: a *_train_test wrapper called with valid data, mlflow_register=True
\* and a non-empty run_name registers the fitted model and its scores in
\* the tracking sink and then returns (model, perf_dict).
C20_TrainTestRegistersAndReturns ==
    (/\ WrapperCalled(TrainTestWrappers)
     /\ wrp_in.data \in {"X, y, test_size", "four splits"}
     /\ wrp_in.dataset.X_test.shape[1] > 2
     /\ UsableParams
     /\ wrp_in.mlflow_register
     /\ wrp_in.run_name # "")
    => /\ wrp_pc = "returned"
       /\ {"fit", "mlflow.log_metric", "mlflow.sklearn.log_model"}
              \subseteq Reached
       /\ wrp_ret.model \in Estimators
       /\ DOMAIN wrp_ret.perf_dict # {}

\* the call was given inputs that let the wrapper reach its tracking step
ValidWrapperInputs ==
    /\ UsableParams
    /\ wrp_fn \in TrainTestWrappers
       => /\ wrp_in.data \in {"X, y, test_size", "four splits"}
          /\ wrp_in.dataset.X_test.shape[1] > 2
    /\ wrp_fn \in CrossValWrappers
       => /\ wrp_in.return_train_score
          /\ \A i \in DOMAIN wrp_in.scoring :
                 wrp_in.scoring[i] \in DOMAIN mapping

\* C21: a wrapper called with mlflow_register=True, a non-empty run_name
\* and register_dataset=False reaches the tracking call and logs the run
\* without a dataset; it never fails for want of the unbuilt dataset.
C21_NoDatasetRunIsLogged ==
    (/\ WrapperCalled(TrainTestWrappers \cup CrossValWrappers)
     /\ ValidWrapperInputs
     /\ wrp_in.mlflow_register
     /\ wrp_in.run_name # ""
     /\ ~wrp_in.register_dataset)
    => /\ wrp_exc # "UnboundLocalError"
       /\ "mlflow.start_run" \in Reached
       /\ "mlflow.log_input" \notin Reached

\* the scoring argument was a single string
ScoringIsStr == wrp_in.scoring_str # ""

\* C22: k_fold_cross_val accepts scoring as one valid scorer-name string
\* or as a list of valid scorer names, and runs the cross-validation in
\* both cases.
C22_StringOrListOfValidScorers ==
    (/\ WrapperCalled({"k_fold_cross_val"})
     /\ \/ ScoringIsStr /\ wrp_in.scoring_str \in get_scorer_names
        \/ ~ScoringIsStr /\ ~InvalidScores(wrp_in.scoring))
    => /\ wrp_pc = "returned"
       /\ "cross_validate" \in Reached

\* C23: k_fold_cross_val given a scoring list with at least one name that
\* is no scorer name raises ValueError, the message lists exactly the
\* invalid names in request order, and cross_validate is not called.
C23_InvalidNamesListedInOrder ==
    (/\ WrapperCalled({"k_fold_cross_val"})
     /\ ~ScoringIsStr
     /\ InvalidScores(wrp_in.scoring))
    => /\ wrp_pc = "raised"
       /\ wrp_exc = "ValueError"
       /\ wrp_msg = SelectSeq(wrp_in.scoring,
                              LAMBDA name : name \notin ScorerNames)
       /\ "cross_validate" \notin Reached

\* a list with a valid name between two invalid ones was refused
C23_Witness ==
    /\ WrapperCalled({"k_fold_cross_val"})
    /\ wrp_in.scoring = <<"rmse", "r2", "mse">>
    /\ wrp_exc = "ValueError"
    /\ wrp_msg = <<"rmse", "mse">>

\* how many times the call ran cross_validate
CrossValidations ==
    Cardinality({i \in DOMAIN wrp_eff : wrp_eff[i][1] = "cross_validate"})

Flag(b) == IF b THEN 1 ELSE 0

-----------------------------------------------------------------------------
(* Further properties of transform_cross_val_scores *)

AllNegative(a) == a # <<>> /\ \A j \in DOMAIN a : a[j] < 0

\* the record d with the signs of its per-fold r2 scores flipped
SignsFlipped(d) ==
    [k \in DOMAIN d |->
        IF k \in {RawKey(part, "r2") : part \in Parts}
        THEN NdArray([j \in DOMAIN d[k].arr |-> -d[k].arr[j]])
        ELSE d[k]]

\* C25: the absolute value is taken for every requested metric, r2
\* included: every *_mean and *_std value written is >= 0, and all-negative
\* per-fold r2 scores give the r2 mean of the same scores with their signs
\* flipped.
C25_AbsoluteValueForEveryMetric ==
    tcv_pc = "returned" =>
        /\ \A k \in DerivedKeys(tcv_scoring) :
              /\ perf_dict[k].kind = "float"
              /\ perf_dict[k].num >= 0 /\ perf_dict[k].den > 0
        /\ \A part \in Parts, i \in DOMAIN tcv_scoring :
              (/\ tcv_scoring[i] = "r2"
               /\ AllNegative(tcv_arg[RawKey(part, "r2")].arr))
              => perf_dict[DerivedKey(part, "r2", "mean")]
                    = transform_cross_val_scores(
                          SignsFlipped(tcv_arg), tcv_scoring
                      ).dict[DerivedKey(part, "r2", "mean")]

\* negative train r2 scores came out as a positive mean
C25_Witness ==
    /\ tcv_pc = "returned"
    /\ \E i \in DOMAIN tcv_scoring : tcv_scoring[i] = "r2"
    /\ AllNegative(tcv_arg["train_r2"].arr)
    /\ perf_dict["train_r2_mean"].num > 0

\* C26: transform_cross_val_scores is idempotent: a second application
\* with the same scoring list to the record it returned raises nothing and
\* leaves a record equal to the one after the first application, with no
\* new key and no changed value.
C26_SecondApplicationChangesNothing ==
    tcv_pc \in {"reapplied", "raised again"} =>
        /\ tcv_pc = "reapplied"
        /\ tcv_ret = "perf_dict"
        /\ DOMAIN perf_dict = DOMAIN tcv_arg
        /\ perf_dict = tcv_arg

\* a second application for two metrics, on a record that already holds
\* their eight derived keys
C26_Witness ==
    /\ tcv_pc = "reapplied"
    /\ Len(tcv_scoring) = 2 /\ tcv_scoring[1] # tcv_scoring[2]
    /\ DerivedKeys(tcv_scoring) \subseteq DOMAIN tcv_arg
    /\ Cardinality(DerivedKeys(tcv_scoring)) = 8

-----------------------------------------------------------------------------
(* Further properties of cramers_corrected_stat *)

\* the number of distinct values of a column
Distinct(col) == Cardinality({col[i] : i \in DOMAIN col})

\* C27: for two columns of r >= 2 and k >= 2 distinct values over n rows
\* the divisor min(kcorr-1, rcorr-1) is never negative and phi2corr is
\* never negative, so no square root of a negative number is taken; the
\* divisor is zero exactly when n = r or n = k.
C27_DivisorAndPhi2corrNonNegative ==
    CrmDone =>
        \A c \in DOMAIN crm_calls :
            LET r == Distinct(dataf[c[1]])
                k == Distinct(dataf[c[2]])
                n == Len(dataf[c[1]])
                call == crm_calls[c]
            IN  (r >= 2 /\ k >= 2) =>
                    /\ call.shape = <<r, k>> /\ call.n = n
                    /\ call.divisor[2] > 0 /\ call.divisor[1] >= 0
                    /\ call.phi2corr[2] > 0 /\ call.phi2corr[1] >= 0
                    /\ call.divisor[1] = 0 <=> (n = r \/ n = k)
                    /\ call.result.kind = "nan" => call.divisor[1] = 0

\* three rows, a column of three distinct values against one of two: the
\* divisor is zero in both calls that pair them and positive for the
\* second column with itself
C27_Witness ==
    /\ CrmDone
    /\ Len(dataf["A"]) = 3
    /\ Distinct(dataf["A"]) = 3 /\ Distinct(dataf["B"]) = 2
    /\ crm_calls[<<"A", "B">>].divisor[1] = 0
    /\ crm_calls[<<"B", "A">>].divisor[1] = 0
    /\ crm_calls[<<"B", "B">>].divisor[1] > 0

-----------------------------------------------------------------------------
(* Properties of fill_tracking_df *)

\* a call of fill_tracking_df has returned
TrkDone == trk_pc = "returned"

\* every column of the row at idx holds a value
IsFilled(df, idx) == \A c \in TrackingColumnNames : ~df[idx][c].isna

\* C28: fill_tracking_df moves to a new row index (latest index + 1) only
\* when every column of the latest row is filled; when the latest row still
\* has an unfilled (NaN) column it writes into the latest row instead.
C28_NewRowOnlyWhenLatestRowFilled ==
    TrkDone =>
        LET latest == IndexMax(trk_before)
        IN  /\ IsFilled(trk_before, latest) => trk_idx = latest + 1
            /\ ~IsFilled(trk_before, latest) => trk_idx = latest

\* every call made so far was given seven values, none of them None
NonNullCalls ==
    \A i \in DOMAIN trk_args :
        \A c \in TrackingColumnNames : ~trk_args[i][c].isna

\* the first index of the table
IndexMin(df) == CHOOSE i \in DOMAIN df : \A j \in DOMAIN df : i <= j

\* C29: starting from a tracking table with a single all-NaN row, after any
\* sequence of k >= 1 calls with non-null arguments the table has exactly k
\* rows with consecutive indices, row i holds the seven values of the i-th
\* call, and no call changes any previously written row.
C29_OneRowPerCallInOrder ==
    (TrkDone /\ NonNullCalls) =>
        LET k == Len(trk_args)
            first == IndexMin(tracking_df)
        IN  /\ k >= 1
            /\ DOMAIN tracking_df = first .. (first + k - 1)
            /\ \A i \in 1..k : tracking_df[first + i - 1] = trk_args[i]
            /\ trk_idx = first + k - 1
            /\ \A i \in DOMAIN trk_before :
                   ~IsNaAll(trk_before, i) => tracking_df[i] = trk_before[i]

\* three calls with values, not all the same, have filled three rows
C29_Witness ==
    /\ TrkDone /\ NonNullCalls
    /\ Len(trk_args) = 3
    /\ trk_args[1] # trk_args[2]
    /\ Cardinality(DOMAIN tracking_df) = 3
    /\ Cardinality(DOMAIN trk_before) = 2

====
